---- MODULE Spec2Model ----
(***************************************************************************)
(* The ABAP remediation pipeline of app/app.py: process_select,            *)
(* process_sort, process_orderby and process_read applied in sequence to   *)
(* a submitted source text.  Texts are TLA+ strings; positions are the     *)
(* 0-based positions of the Python code.                                   *)
(***************************************************************************)
EXTENDS Integers, Sequences, FiniteSets, TLC

(***************************************************************************)
(* Python string primitives, as the code uses them.                        *)
(***************************************************************************)
\* s[i]
ch(s, i) == SubSeq(s, i + 1, i + 1)

\* s[a:b] for 0 <= a
slice(s, a, b) == SubSeq(s, a + 1, IF b < Len(s) THEN b ELSE Len(s))

\* s[a:] for 0 <= a
tail_from(s, a) == SubSeq(s, a + 1, Len(s))

lowerAlpha == "abcdefghijklmnopqrstuvwxyz"
upperAlpha == "ABCDEFGHIJKLMNOPQRSTUVWXYZ"
digitChars == "0123456789"
LowerSet == {ch(lowerAlpha, k) : k \in 0..(Len(lowerAlpha) - 1)}
UpperSet == {ch(upperAlpha, k) : k \in 0..(Len(upperAlpha) - 1)}
DigitSet == {ch(digitChars, k) : k \in 0..(Len(digitChars) - 1)}
LowerOf ==
  [c \in UpperSet |->
     ch(lowerAlpha, CHOOSE k \in 0..(Len(upperAlpha) - 1) : ch(upperAlpha, k) = c)]

\* c.isalnum()
isalnum(c) == c \in LowerSet \/ c \in UpperSet \/ c \in DigitSet

\* c.isspace()
isspace(c) == c \in {" ", "\t", "\n", "\r", "\f"}

\* c.isdigit(), the regex class \d
isdigit(c) == c \in DigitSet

\* str.lower()
RECURSIVE lower(_)
lower(s) ==
  IF Len(s) = 0 THEN ""
  ELSE IF Len(s) = 1 THEN (IF s \in UpperSet THEN LowerOf[s] ELSE s)
  ELSE LET m == Len(s) \div 2
       IN lower(slice(s, 0, m)) \o lower(tail_from(s, m))

UpperOf ==
  [c \in LowerSet |->
     ch(upperAlpha, CHOOSE k \in 0..(Len(lowerAlpha) - 1) : ch(lowerAlpha, k) = c)]

\* str.upper()
RECURSIVE upper(_)
upper(s) ==
  IF Len(s) = 0 THEN ""
  ELSE IF Len(s) = 1 THEN (IF s \in LowerSet THEN UpperOf[s] ELSE s)
  ELSE LET m == Len(s) \div 2
       IN upper(slice(s, 0, m)) \o upper(tail_from(s, m))

\* The least position p in a..b-1 with s[p] in C (want) or not in C (~want);
\* -1 if there is none.  The searches split the range in halves so that the
\* depth of evaluation stays logarithmic in the length of the text.
RECURSIVE first_pos(_, _, _, _, _)
first_pos(s, C, want, a, b) ==
  IF a >= b THEN -1
  ELSE IF b = a + 1 THEN (IF (ch(s, a) \in C) = want THEN a ELSE -1)
  ELSE LET m == (a + b) \div 2
           l == first_pos(s, C, want, a, m)
       IN IF l # -1 THEN l ELSE first_pos(s, C, want, m, b)

\* The greatest such position
RECURSIVE last_pos(_, _, _, _, _)
last_pos(s, C, want, a, b) ==
  IF a >= b THEN -1
  ELSE IF b = a + 1 THEN (IF (ch(s, a) \in C) = want THEN a ELSE -1)
  ELSE LET m == (a + b) \div 2
           r == last_pos(s, C, want, m, b)
       IN IF r # -1 THEN r ELSE last_pos(s, C, want, a, m)

\* s.find(c, start) for a one-character c
find(s, c, start) == first_pos(s, {c}, TRUE, start, Len(s))

\* s.rfind(c, 0, end) for a one-character c
rfind(s, c, end) == last_pos(s, {c}, TRUE, 0, end)

SpaceSet == {" ", "\t", "\n", "\r", "\f"}

\* s.lstrip()
lstrip(s) ==
  LET p == first_pos(s, SpaceSet, FALSE, 0, Len(s))
  IN IF p = -1 THEN "" ELSE tail_from(s, p)

\* s.rstrip()
rstrip(s) ==
  LET p == last_pos(s, SpaceSet, FALSE, 0, Len(s))
  IN IF p = -1 THEN "" ELSE slice(s, 0, p + 1)

\* s.strip()
strip(s) == lstrip(rstrip(s))

\* The end of the run of characters of C that starts at i (i when there is none)
run_end(s, C, i) ==
  LET p == first_pos(s, C, FALSE, i, Len(s))
  IN IF p = -1 THEN (IF i > Len(s) THEN i ELSE Len(s)) ELSE p

\* A loop of the code is its body iterated until its exit condition holds.
\* The runners below iterate a body by repeated doubling: run(st, k) applies
\* the body up to 2^k times, and 2^bits(n) > n bounds the iterations of a
\* loop whose cursor advances through a text of length n.
RECURSIVE bits(_)
bits(n) == IF n = 0 THEN 0 ELSE 1 + bits(n \div 2)

\* Where the code assigns a local variable x and reads it several times, the
\* rest of the function is an operator f_from_x that takes the value of x as
\* its last parameter, so that the value is computed once.

\* a when a is a position, b when a is -1 (a failed search or match)
or_else(a, b) == IF a # -1 THEN a ELSE b

(***************************************************************************)
(* Lexical utilities shared by the four passes (each file has its own      *)
(* copy of them).                                                          *)
(***************************************************************************)
is_word_char(c) == isalnum(c) \/ c = "_"

match_kw_at(s, i, kw) ==
  LET n == Len(kw)
  IN /\ i >= 0
     /\ i + n <= Len(s)
     /\ lower(ch(s, i)) = lower(ch(kw, 0))   \* implied by the next line
     /\ lower(slice(s, i, i + n)) = lower(kw)
     /\ (i = 0 \/ ~is_word_char(ch(s, i - 1)))
     /\ (i + n = Len(s) \/ ~is_word_char(ch(s, i + n)))

\* True when s[i] is a '*' in the first column of its line
star_at_bol(s, i) == ch(s, i) = "*" /\ (i = 0 \/ ch(s, i - 1) = "\n")

\* in_string_step without the advance over a character that is not the
\* delimiter
in_string_step_stuck(s, i, q) ==
  IF ch(s, i) = q
  THEN IF i + 1 < Len(s) /\ ch(s, i + 1) = q
       THEN [i |-> i + 2, q |-> q]
       ELSE [i |-> i + 1, q |-> ""]
  ELSE [i |-> i, q |-> q]

\* One step inside a single-quote, backtick or pipe region opened by q: the
\* cursor and the open delimiter ("" once the region is closed) after s[i].
in_string_step(s, i, q) ==
  IF ch(s, i) = q
  THEN IF i + 1 < Len(s) /\ ch(s, i + 1) = q
       THEN [i |-> i + 2, q |-> q]
       ELSE [i |-> i + 1, q |-> ""]
  ELSE [i |-> i + 1, q |-> q]

\* TLA+ strings cannot hold a backtick: BT stands for it in every text.
BT == "^"
QuoteChars == {"'", BT, "|"}

skip_line_comment(s, i) ==
  LET eol == find(s, "\n", i) IN IF eol = -1 THEN Len(s) ELSE eol

skip_full_line_star_comment(s, i) ==
  LET eol == find(s, "\n", i) IN IF eol = -1 THEN Len(s) ELSE eol

\* pwc_tag_line without the newline that ends the line
pwc_tag_line_open(today) == "\" Added By Pwc " \o today

pwc_tag_line(today) == "\" Added By Pwc " \o today \o "\n"

\* Indentation (spaces and tabs) of the line that holds position pos, up to pos
get_line_indent_before(code, pos) ==
  LET nl == rfind(code, "\n", pos)
      ls == IF nl = -1 THEN 0 ELSE nl + 1
      p == first_pos(code, {" ", "\t"}, FALSE, ls, pos)
  IN slice(code, ls, IF p = -1 THEN pos ELSE p)

(***************************************************************************)
(* out_parts.  Every element the code appends is kept with the role the    *)
(* code gives it: k = "asis" for input text copied unchanged, "tag" for a  *)
(* provenance line, "new" for a rewritten statement, "ins" for an inserted *)
(* SORT statement, "endselect" for an appended ENDSELECT, "trail" for the  *)
(* text process_select re-emits ahead of an existing ENDSELECT.  src is    *)
(* the input text the element stands for, at is the input position of the *)
(* statement a tag or insertion belongs to.                                *)
(***************************************************************************)
part(kind, text, source, pos) ==
  [k |-> kind, s |-> text, src |-> source, at |-> pos]

as_is(text) == part("asis", text, text, -1)

\* ''.join(out_parts)
RECURSIVE parts_text(_)
parts_text(parts) ==
  IF parts = <<>> THEN "" ELSE Head(parts).s \o parts_text(Tail(parts))

(***************************************************************************)
(* app/select.py: process_select                                           *)
(***************************************************************************)
skip_ws(s, i) == run_end(s, {" ", "\t", "\r", "\n"}, i)

select_skip_wc_step(s, st) ==
  (LET j == skip_ws(s, st.i)
   IN IF j >= Len(s) THEN [i |-> j, done |-> TRUE]
      ELSE IF star_at_bol(s, j)
      THEN [i |-> skip_full_line_star_comment(s, j), done |-> FALSE]
      ELSE IF ch(s, j) = "\""
      THEN [i |-> skip_line_comment(s, j), done |-> FALSE]
      ELSE [i |-> j, done |-> TRUE])

RECURSIVE select_skip_wc_run(_, _, _)
select_skip_wc_run(s, st, k) ==
  IF st.done \/ st.i >= Len(s) THEN st
  ELSE IF k = 0 THEN select_skip_wc_step(s, st)
  ELSE select_skip_wc_run(s, select_skip_wc_run(s, st, k - 1), k - 1)

select_skip_ws_and_comments(s, i) ==
  select_skip_wc_run(s, [i |-> i, done |-> FALSE], bits(Len(s))).i

\* The step of a scan for the terminator that opens no quoted region
select_fsp_step_no_regions(s, i, q) ==
  IF ch(s, i) = "\""
  THEN [i |-> skip_line_comment(s, i), q |-> "", hit |-> FALSE]
  ELSE IF star_at_bol(s, i)
  THEN [i |-> skip_full_line_star_comment(s, i), q |-> "", hit |-> FALSE]
  ELSE IF ch(s, i) = "."
  THEN [i |-> i, q |-> "", hit |-> TRUE]
  ELSE [i |-> i + 1, q |-> "", hit |-> FALSE]

\* One iteration of find_statement_period's loop at cursor i < len(s) with the
\* open delimiter q: the next cursor and delimiter, hit when s[i] terminates.
select_fsp_step(s, i, q) ==
  LET c == ch(s, i)
  IN IF q = ""
     THEN IF c = "\""
          THEN [i |-> skip_line_comment(s, i), q |-> "", hit |-> FALSE]
          ELSE IF star_at_bol(s, i)
          THEN [i |-> skip_full_line_star_comment(s, i), q |-> "", hit |-> FALSE]
          ELSE IF c \in QuoteChars
          THEN [i |-> i + 1, q |-> c, hit |-> FALSE]
          ELSE IF c = "."
          THEN [i |-> i, q |-> "", hit |-> TRUE]
          ELSE [i |-> i + 1, q |-> "", hit |-> FALSE]
     ELSE LET r == in_string_step(s, i, q)
          IN [i |-> r.i, q |-> r.q, hit |-> FALSE]

RECURSIVE select_fsp_run(_, _, _)
select_fsp_run(s, st, k) ==
  IF st.hit \/ st.i >= Len(s) THEN st
  ELSE IF k = 0 THEN select_fsp_step(s, st.i, st.q)
  ELSE select_fsp_run(s, select_fsp_run(s, st, k - 1), k - 1)

select_find_statement_period(s, start) ==
  LET r == select_fsp_run(s, [i |-> start, q |-> "", hit |-> FALSE], bits(Len(s)))
  IN IF r.hit THEN r.i ELSE -1

\* One iteration of find_kw's loop.  In Code state the function tests the
\* comment openers and the keyword only: it never opens a quoted region.
select_find_kw_step(s, kw, i, q) ==
  LET c == ch(s, i)
  IN IF q = ""
     THEN IF c = "\""
          THEN [i |-> skip_line_comment(s, i) + 1, q |-> "", hit |-> FALSE]
          ELSE IF star_at_bol(s, i)
          THEN [i |-> skip_full_line_star_comment(s, i) + 1, q |-> "", hit |-> FALSE]
          ELSE IF match_kw_at(s, i, kw)
          THEN [i |-> i, q |-> "", hit |-> TRUE]
          ELSE [i |-> i + 1, q |-> "", hit |-> FALSE]
     ELSE LET r == in_string_step(s, i, q)
          IN [i |-> r.i, q |-> r.q, hit |-> FALSE]

RECURSIVE select_find_kw_run(_, _, _, _)
select_find_kw_run(s, kw, st, k) ==
  IF st.hit \/ st.i >= Len(s) THEN st
  ELSE IF k = 0 THEN select_find_kw_step(s, kw, st.i, st.q)
  ELSE select_find_kw_run(s, kw, select_find_kw_run(s, kw, st, k - 1), k - 1)

select_find_kw(s, kw, start) ==
  LET r == select_find_kw_run(s, kw, [i |-> start, q |-> "", hit |-> FALSE],
                              bits(Len(s)))
  IN IF r.hit THEN r.i ELSE -1

\* find_next_any_kw: the earliest index among the keywords, -1 if none
RECURSIVE select_best_idx(_, _, _, _)
select_best_idx(s, keywords, start, best) ==
  IF keywords = <<>> THEN best
  ELSE (LET idx == select_find_kw(s, Head(keywords), start)
        IN select_best_idx(s, Tail(keywords), start,
             IF idx # -1 /\ (best = -1 \/ idx < best) THEN idx ELSE best))

select_find_next_any_kw(s, keywords, start) ==
  select_best_idx(s, keywords, start, -1)

\* re.sub with an empty or fixed replacement, as a loop over the text: st.i is
\* the cursor and st.out the text produced so far.
\* re.sub(r'(?i)\bSINGLE\b', '', stmt)
remove_single_step(stmt, st) ==
  IF match_kw_at(stmt, st.i, "single")
  THEN [i |-> st.i + 6, out |-> st.out]
  ELSE [i |-> st.i + 1, out |-> st.out \o ch(stmt, st.i)]

RECURSIVE remove_single_run(_, _, _)
remove_single_run(stmt, st, k) ==
  IF st.i >= Len(stmt) THEN st
  ELSE IF k = 0 THEN remove_single_step(stmt, st)
  ELSE remove_single_run(stmt, remove_single_run(stmt, st, k - 1), k - 1)

remove_single(stmt) ==
  remove_single_run(stmt, [i |-> 0, out |-> ""], bits(Len(stmt))).out

skip_re_space(s, i) == run_end(s, SpaceSet, i)

skip_re_digits(s, i) == run_end(s, DigitSet, i)

\* up_to_rows_match from the assignment of d on
up_to_rows_match_from_d(s, i, a, b, c, d) ==
  IF /\ a > i + 2
     /\ lower(slice(s, a, a + 2)) = "to"
     /\ b > a + 2
     /\ c > b
     /\ d > c
     /\ lower(slice(s, d, d + 4)) = "rows"
     /\ (d + 4 = Len(s) \/ ~is_word_char(ch(s, d + 4)))
  THEN d + 4
  ELSE -1

\* up_to_rows_re matched at i: the end of the match, or -1
up_to_rows_match(s, i) ==
  IF ~(lower(slice(s, i, i + 2)) = "up" /\ (i = 0 \/ ~is_word_char(ch(s, i - 1))))
  THEN -1
  ELSE
    (LET a == skip_re_space(s, i + 2)
         b == skip_re_space(s, a + 2)
         c == skip_re_digits(s, b)
     IN up_to_rows_match_from_d(s, i, a, b, c, skip_re_space(s, c)))

\* up_to_rows_re.sub('', stmt)
remove_up_to_rows_step(stmt, st) ==
  (LET e == up_to_rows_match(stmt, st.i)
   IN IF e # -1
      THEN [i |-> e, out |-> st.out]
      ELSE [i |-> st.i + 1, out |-> st.out \o ch(stmt, st.i)])

RECURSIVE remove_up_to_rows_run(_, _, _)
remove_up_to_rows_run(stmt, st, k) ==
  IF st.i >= Len(stmt) THEN st
  ELSE IF k = 0 THEN remove_up_to_rows_step(stmt, st)
  ELSE remove_up_to_rows_run(stmt, remove_up_to_rows_run(stmt, st, k - 1), k - 1)

remove_any_up_to_rows(stmt) ==
  remove_up_to_rows_run(stmt, [i |-> 0, out |-> ""], bits(Len(stmt))).out

\* re.sub(r'[ \t]+', repl, stmt): a run holding a tab is kept, any other run
\* becomes one space
normalize_spaces_step(stmt, st) ==
  (LET e == run_end(stmt, {" ", "\t"}, st.i)
   IN IF e > st.i
      THEN (LET m == slice(stmt, st.i, e)
            IN [i |-> e, out |-> st.out \o (IF find(m, "\t", 0) # -1 THEN m ELSE " ")])
      ELSE [i |-> st.i + 1, out |-> st.out \o ch(stmt, st.i)])

RECURSIVE normalize_spaces_run(_, _, _)
normalize_spaces_run(stmt, st, k) ==
  IF st.i >= Len(stmt) THEN st
  ELSE IF k = 0 THEN normalize_spaces_step(stmt, st)
  ELSE normalize_spaces_run(stmt, normalize_spaces_run(stmt, st, k - 1), k - 1)

normalize_spaces(stmt) ==
  normalize_spaces_run(stmt, [i |-> 0, out |-> ""], bits(Len(stmt))).out

has_endselect_after(s, period_pos) ==
  (LET i == select_skip_ws_and_comments(s, period_pos + 1)
   IN i < Len(s) /\ lower(slice(s, i, i + 10)) = "endselect.")

into_terminators ==
  << "from", "where", "order", "group", "having", "bypassing", "client",
     "using", "for", "appending", "union", "intersect", "except", "package",
     "up" >>

\* The statement with " UP TO 1 ROWS" put at position at, or appended
place_up_to_rows(cleaned, at) ==
  IF at = -1 THEN rstrip(cleaned) \o " UP TO 1 ROWS"
  ELSE rstrip(slice(cleaned, 0, at)) \o " UP TO 1 ROWS" \o " "
         \o lstrip(tail_from(cleaned, at))

\* Steps 3 and 4 of the transformation: the statement with UP TO 1 ROWS placed
select_new_stmt(cleaned) ==
  (LET where_idx == select_find_kw(cleaned, "where", 0)
   IN strip(normalize_spaces(
        IF where_idx # -1 THEN place_up_to_rows(cleaned, where_idx)
        ELSE
          (LET into_idx == select_find_kw(cleaned, "into", 0)
           IN IF into_idx # -1
              THEN place_up_to_rows(cleaned,
                     select_find_next_any_kw(cleaned, into_terminators,
                                             skip_re_space(cleaned, into_idx + 4)))
              ELSE place_up_to_rows(cleaned, -1)))))

\* select_after_step from the assignment of a on
select_after_step_from_a(code, a) ==
  IF a < Len(code) /\ (ch(code, a) = "\"" \/ star_at_bol(code, a))
  THEN (LET eol == find(code, "\n", a)
        IN [i |-> (IF eol = -1 THEN Len(code) - 1 ELSE eol) + 1, done |-> FALSE])
  ELSE [i |-> a, done |-> TRUE]

\* The token after SELECT, past whitespace and comments (the loop on after)
select_after_step(code, st) ==
  select_after_step_from_a(code, skip_ws(code, st.i))

RECURSIVE select_after_run(_, _, _)
select_after_run(code, st, k) ==
  IF st.done THEN st
  ELSE IF k = 0 THEN select_after_step(code, st)
  ELSE select_after_run(code, select_after_run(code, st, k - 1), k - 1)

select_after_select(code, after) ==
  select_after_run(code, [i |-> after, done |-> FALSE], bits(Len(code) + 1)).i

\* One iteration of the scan for the next SELECT SINGLE at cursor k < n.
\* res: "go" to continue, "found" at k, "eof" when a comment runs to the end.
select_scan_step(code, k, q) ==
  LET n == Len(code)
      c == ch(code, k)
  IN IF q = ""
     THEN IF c = "\"" \/ star_at_bol(code, k)
          THEN LET eol == find(code, "\n", k)
               IN IF eol = -1
                  THEN [k |-> k, q |-> "", res |-> "eof"]
                  ELSE [k |-> eol + 1, q |-> "", res |-> "go"]
          ELSE IF c \in QuoteChars
          THEN [k |-> k + 1, q |-> c, res |-> "go"]
          ELSE IF /\ lower(slice(code, k, k + 6)) = "select"
                  /\ k + 6 <= n
                  /\ (k + 6 = n \/ ~is_word_char(ch(code, k + 6)))
          THEN LET after == select_after_select(code, k + 6)
               IN IF /\ after < n
                     /\ lower(slice(code, after, after + 6)) = "single"
                     /\ (after + 6 = n \/ ~is_word_char(ch(code, after + 6)))
                  THEN [k |-> k, q |-> "", res |-> "found"]
                  ELSE [k |-> k + 1, q |-> "", res |-> "go"]
          ELSE [k |-> k + 1, q |-> "", res |-> "go"]
     ELSE LET r == in_string_step(code, k, q)
          IN [k |-> r.i, q |-> r.q, res |-> "go"]

RECURSIVE select_scan_run(_, _, _)
select_scan_run(code, st, k) ==
  IF st.res # "go" \/ st.k >= Len(code) THEN st
  ELSE IF k = 0 THEN select_scan_step(code, st.k, st.q)
  ELSE select_scan_run(code, select_scan_run(code, st, k - 1), k - 1)

\* The scan loop from cursor i: the position of the next SELECT SINGLE, or -1
select_scan(code, i) ==
  LET r == select_scan_run(code, [k |-> i, q |-> "", res |-> "go"], bits(Len(code)))
  IN IF r.res = "found" THEN r.k ELSE -1

\* process_select_iter from the assignment of sel_start on
process_select_iter_from_sel_start(code, i, tag, sel_start) ==
  IF sel_start = -1
  THEN [i |-> i, parts |-> << as_is(tail_from(code, i)) >>, stop |-> TRUE]
  ELSE
    (LET before == as_is(slice(code, i, sel_start))
         period_pos == select_find_statement_period(code, sel_start)
     IN IF period_pos = -1
        THEN [i |-> i, stop |-> TRUE,
              parts |-> << before, as_is(tail_from(code, sel_start)) >>]
        ELSE
          (LET stmt == slice(code, sel_start, period_pos)
               indent == get_line_indent_before(code, sel_start)
               new_stmt == select_new_stmt(remove_any_up_to_rows(remove_single(stmt)))
           IN [i |-> period_pos + 1, stop |-> FALSE,
               parts |->
                 << before,
                    part("tag", indent \o tag, "", sel_start),
                    part("new", new_stmt \o ".",
                         slice(code, sel_start, period_pos + 1), sel_start),
                    IF ~has_endselect_after(code, period_pos)
                    THEN part("endselect", "\n" \o indent \o "ENDSELECT.", "",
                              sel_start)
                    ELSE part("trail",
                              slice(code, period_pos + 1,
                                    select_skip_ws_and_comments(code, period_pos + 1)),
                              "", sel_start) >>]))

\* One iteration of process_select's outer loop at cursor i < n: the new
\* cursor, the elements appended to out_parts, and whether the loop ends.
process_select_iter(code, i, tag) ==
  process_select_iter_from_sel_start(code, i, tag, select_scan(code, i))

\* process_select as a whole: out_parts when the loop is left
RECURSIVE process_select_parts(_, _, _)
process_select_parts(code, i, tag) ==
  IF i >= Len(code) THEN <<>>
  ELSE (LET r == process_select_iter(code, i, tag)
        IN IF r.stop THEN r.parts
           ELSE r.parts \o process_select_parts(code, r.i, tag))

process_select(code, today) ==
  parts_text(process_select_parts(code, 0, pwc_tag_line(today)))

(***************************************************************************)
(* Regular expressions of the code, matched as Python's re matches them.   *)
(***************************************************************************)
\* The least element of a set of positions, -1 for the empty set: the start
\* of the leftmost match
least(S) == IF S = {} THEN -1 ELSE CHOOSE p \in S : \A r \in S : p <= r

\* \b at position p of s
re_boundary(s, p) ==
  LET left == p > 0 /\ is_word_char(ch(s, p - 1))
      right == p < Len(s) /\ is_word_char(ch(s, p))
  IN left # right

\* The words of a phrase separated by \s+, matched case-insensitively from p
\* on (no boundary test): the end of the match, or -1
RECURSIVE words_at(_, _, _)
words_at(s, p, words) ==
  LET w == Head(words)
      e == p + Len(w)
  IN IF e > Len(s) \/ lower(ch(s, p)) # ch(w, 0) \/ lower(slice(s, p, e)) # w THEN -1
     ELSE IF Len(words) = 1 THEN e
     ELSE (LET e2 == run_end(s, SpaceSet, e)
           IN IF e2 = e THEN -1 ELSE words_at(s, e2, Tail(words)))

\* phrase_at from the assignment of e on
phrase_at_from_e(s, e) ==
  IF e # -1 /\ re_boundary(s, e) THEN e ELSE -1

\* \b<words joined by \s+>\b matched at p: the end of the match, or -1
phrase_at(s, p, words) ==
  IF ~re_boundary(s, p) THEN -1
  ELSE phrase_at_from_e(s, words_at(s, p, words))

\* re.search of such a phrase: the start of the leftmost match, or -1
phrase_search(s, words) ==
  least({p \in 0..(Len(s) - 1) : phrase_at(s, p, words) # -1})

IdentStart == LowerSet \cup UpperSet \cup {"_"}
WordSet == LowerSet \cup UpperSet \cup DigitSet \cup {"_"}

\* [A-Za-z_]\w* matched greedily at p: the end of the match, or -1
ident_at(s, p) ==
  IF p < Len(s) /\ ch(s, p) \in IdentStart THEN run_end(s, WordSet, p + 1) ELSE -1

(***************************************************************************)
(* app/read_statement.py: process_read                                     *)
(***************************************************************************)
read_fsp_step(s, i, q) ==
  LET c == ch(s, i)
  IN IF q = ""
     THEN IF c = "\""
          THEN [i |-> skip_line_comment(s, i), q |-> "", hit |-> FALSE]
          ELSE IF star_at_bol(s, i)
          THEN [i |-> skip_full_line_star_comment(s, i), q |-> "", hit |-> FALSE]
          ELSE IF c \in QuoteChars
          THEN [i |-> i + 1, q |-> c, hit |-> FALSE]
          ELSE IF c = "."
          THEN [i |-> i, q |-> "", hit |-> TRUE]
          ELSE [i |-> i + 1, q |-> "", hit |-> FALSE]
     ELSE LET r == in_string_step(s, i, q)
          IN [i |-> r.i, q |-> r.q, hit |-> FALSE]

RECURSIVE read_fsp_run(_, _, _)
read_fsp_run(s, st, k) ==
  IF st.hit \/ st.i >= Len(s) THEN st
  ELSE IF k = 0 THEN read_fsp_step(s, st.i, st.q)
  ELSE read_fsp_run(s, read_fsp_run(s, st, k - 1), k - 1)

read_find_statement_period(s, start) ==
  LET r == read_fsp_run(s, [i |-> start, q |-> "", hit |-> FALSE], bits(Len(s)))
  IN IF r.hit THEN r.i ELSE -1

\* The step towards the executable line before a position that takes a line
\* that starts with " as executable
prev_exec_step_tag_as_code(s, i) ==
  LET nl == rfind(s, "\n", i)
      ls == IF nl = -1 THEN 0 ELSE nl + 1
      p == first_pos(s, {" ", "\t"}, FALSE, ls, i)
      k == IF p = -1 THEN i ELSE p
      up == [i |-> IF ls > 0 THEN ls - 1 ELSE 0, ret |-> -2]
  IN IF k >= i \/ (k < Len(s) /\ ch(s, k) \in {"\n", "\r"}) THEN up
     ELSE IF ch(s, k) = "*" THEN up
     ELSE [i |-> i, ret |-> k]

\* One iteration of prev_executable_line_start's loop at cursor i > 0:
\* ret is the position found, -2 while the loop goes on to the line above.
prev_exec_step(s, i) ==
  LET nl == rfind(s, "\n", i)
      ls == IF nl = -1 THEN 0 ELSE nl + 1
      p == first_pos(s, {" ", "\t"}, FALSE, ls, i)
      k == IF p = -1 THEN i ELSE p
      up == [i |-> IF ls > 0 THEN ls - 1 ELSE 0, ret |-> -2]
  IN IF k >= i \/ (k < Len(s) /\ ch(s, k) \in {"\n", "\r"}) THEN up
     ELSE IF ch(s, k) = "*" THEN up
     ELSE IF ch(s, k) = "\"" THEN up
     ELSE [i |-> i, ret |-> k]

RECURSIVE prev_exec_run(_, _, _)
prev_exec_run(s, st, k) ==
  IF st.ret # -2 \/ st.i <= 0 THEN st
  ELSE IF k = 0 THEN prev_exec_step(s, st.i)
  ELSE prev_exec_run(s, prev_exec_run(s, st, k - 1), k - 1)

prev_executable_line_start(s, pos) ==
  LET r == prev_exec_run(s, [i |-> pos, ret |-> -2], bits(Len(s)))
  IN IF r.ret # -2 THEN r.ret ELSE -1

\* table_name_at from the assignment of a on
table_name_at_from_a(s, p, a) ==
  IF a # -1 /\ a < Len(s) /\ ch(s, a) = ">" /\ re_boundary(s, a + 1)
  THEN a + 1
  ELSE ident_at(s, p)

\* (<[A-Za-z_]\w*>|[A-Za-z_]\w*)\b or, with strict FALSE, (<\w+>|[A-Za-z_]\w*)\b
\* matched at p: the end of the match, or -1
table_name_at(s, p, strict) ==
  table_name_at_from_a(s, p, IF p < Len(s) /\ ch(s, p) = "<"
                             THEN (IF strict THEN ident_at(s, p + 1)
                                   ELSE (LET e == run_end(s, WordSet, p + 1)
                                         IN IF e > p + 1 THEN e ELSE -1))
                             ELSE -1)

\* itab_at from the assignment of b on
itab_at_from_b(a, b) ==
  IF b = -1 THEN [a |-> -1, b |-> -1] ELSE [a |-> a, b |-> b]

\* itab_at from the assignment of e on
itab_at_from_e(s, e) ==
  (LET a == IF e = -1 THEN -1 ELSE run_end(s, SpaceSet, e)
   IN itab_at_from_b(a, IF e = -1 \/ a = e THEN -1 ELSE table_name_at(s, a, TRUE)))

\* itab_re matched at p: the span of the group itab, or a = -1
itab_at(s, p) ==
  itab_at_from_e(s, IF re_boundary(s, p) THEN words_at(s, p, << "read", "table" >>) ELSE -1)

\* itab_re.search(stmt): the span of the group itab of the leftmost match
itab_search(stmt) ==
  (LET S == {x \in 0..(Len(stmt) - 1) : itab_at(stmt, x).a # -1}
   IN IF S = {} THEN [a |-> -1, b |-> -1] ELSE itab_at(stmt, least(S)))

\* extract_itab from the assignment of m on
extract_itab_from_m(stmt, m) ==
  IF m.a = -1 THEN "" ELSE slice(stmt, m.a, m.b)

\* The table of the READ statement, "" when there is no match (None)
extract_itab(stmt) ==
  extract_itab_from_m(stmt, itab_search(stmt))

read_has_index(stmt) == phrase_search(stmt, << "index" >>) # -1

read_has_key(stmt) ==
  \/ phrase_search(stmt, << "with", "table", "key" >>) # -1
  \/ phrase_search(stmt, << "with", "key" >>) # -1
  \/ phrase_search(stmt, << "table", "key" >>) # -1
  \/ phrase_search(stmt, << "key" >>) # -1

\* The end of the leftmost match of a phrase in s, or -1
phrase_search_end(s, words) ==
  (LET p == phrase_search(s, words)
   IN IF p = -1 THEN -1 ELSE phrase_at(s, p, words))

\* \b([A-Za-z_]\w*)\s*= matched at p: the end of the name and of the match
key_name_at(s, p) ==
  (LET e == IF re_boundary(s, p) THEN ident_at(s, p) ELSE -1
       f == IF e = -1 THEN -1 ELSE run_end(s, SpaceSet, e)
   IN IF e # -1 /\ f < Len(s) /\ ch(s, f) = "="
      THEN [e |-> e, f |-> f + 1]
      ELSE [e |-> -1, f |-> -1])

\* key_fields_step from the assignment of m on
key_fields_step_from_m(s, st, m) ==
  IF m.e = -1 THEN [i |-> st.i + 1, fields |-> st.fields, seen |-> st.seen]
  ELSE (LET f == slice(s, st.i, m.e)
            fl == lower(f)
        IN IF fl \in {"with", "table", "key", "components"} \/ fl \in st.seen
           THEN [i |-> m.f, fields |-> st.fields, seen |-> st.seen]
           ELSE [i |-> m.f, fields |-> Append(st.fields, f),
                 seen |-> st.seen \cup {fl}])

\* re.findall over the key section, and the deduplication that follows it
key_fields_step(s, st) ==
  key_fields_step_from_m(s, st, key_name_at(s, st.i))

RECURSIVE key_fields_run(_, _, _)
key_fields_run(s, st, k) ==
  IF st.i >= Len(s) THEN st
  ELSE IF k = 0 THEN key_fields_step(s, st)
  ELSE key_fields_run(s, key_fields_run(s, st, k - 1), k - 1)

\* extract_key_fields from the assignment of m_key on
extract_key_fields_from_m_key(stmt, search_from, m_key) ==
  IF m_key = -1 THEN <<>>
  ELSE
    (LET key_start0 == search_from + m_key
         m_comp == phrase_search_end(tail_from(stmt, key_start0), << "components" >>)
         key_section == tail_from(stmt, IF m_comp = -1 THEN key_start0
                                        ELSE key_start0 + m_comp)
     IN key_fields_run(key_section,
                       [i |-> 0, fields |-> <<>>, seen |-> {}],
                       bits(Len(key_section))).fields)

\* extract_key_fields from the assignment of m_itab on
extract_key_fields_from_m_itab(stmt, m_itab) ==
  (LET search_from == IF m_itab.a = -1 THEN 0 ELSE m_itab.b
       rest == tail_from(stmt, search_from)
   IN extract_key_fields_from_m_key(stmt, search_from,
        or_else(phrase_search_end(rest, << "with", "table", "key" >>),
        or_else(phrase_search_end(rest, << "with", "key" >>),
        or_else(phrase_search_end(rest, << "table", "key" >>),
                phrase_search_end(rest, << "key" >>))))))

extract_key_fields(stmt) ==
  extract_key_fields_from_m_itab(stmt, itab_search(stmt))

\* The text of line from prev_start to the end of its line, with an inline
\* comment cut off, stripped
code_of_line(s, start) ==
  (LET line_end == find(s, "\n", start)
       line == IF line_end = -1 THEN tail_from(s, start) ELSE slice(s, start, line_end)
       q == find(line, "\"", 0)
   IN strip(IF q # -1 THEN slice(line, 0, q) ELSE line))

\* sort_target_of from the assignment of e on
sort_target_of_from_e(line, field_symbols, e) ==
  (LET a == IF e = -1 THEN -1 ELSE run_end(line, SpaceSet, e)
       b == IF e = -1 \/ a = e THEN -1
            ELSE IF field_symbols THEN table_name_at(line, a, FALSE)
            ELSE ident_at(line, a)
   IN IF b = -1 THEN "" ELSE slice(line, a, b))

\* ^sort\s+(<name>)\b matched against line: the table named, "" for no match
sort_target_of(line, field_symbols) ==
  sort_target_of_from_e(line, field_symbols, words_at(line, 0, << "sort" >>))

\* The comparison of tables that finds no SORT of the table
never_sorted_before(itab, t) == FALSE

\* is_sort_immediately_before from the assignment of t on
is_sort_immediately_before_from_t(itab, t) ==
  t # "" /\ lower(t) = lower(itab)

is_sort_immediately_before(s, read_pos, itab) ==
  (LET prev_start == prev_executable_line_start(s, read_pos)
   IN is_sort_immediately_before_from_t(itab,
        IF prev_start = -1 THEN ""
        ELSE sort_target_of(code_of_line(s, prev_start), TRUE)))

\* ' '.join(fields)
RECURSIVE join_with(_, _)
join_with(sep, items) ==
  IF items = <<>> THEN ""
  ELSE IF Len(items) = 1 THEN Head(items)
  ELSE Head(items) \o sep \o join_with(sep, Tail(items))

\* One iteration of the scan for the next READ TABLE at cursor k < n
read_scan_step(code, k, q) ==
  LET n == Len(code)
      c == ch(code, k)
  IN IF q = ""
     THEN IF c = "\"" \/ star_at_bol(code, k)
          THEN LET e == skip_line_comment(code, k)
               IN [k |-> IF e < n THEN e + 1 ELSE e, q |-> "", res |-> "go"]
          ELSE IF c \in QuoteChars
          THEN [k |-> k + 1, q |-> c, res |-> "go"]
          ELSE IF /\ match_kw_at(code, k, "read")
                  /\ match_kw_at(code, skip_ws(code, k + 4), "table")
          THEN [k |-> k, q |-> "", res |-> "found"]
          ELSE [k |-> k + 1, q |-> "", res |-> "go"]
     ELSE LET r == in_string_step(code, k, q)
          IN [k |-> r.i, q |-> r.q, res |-> "go"]

RECURSIVE read_scan_run(_, _, _)
read_scan_run(code, st, k) ==
  IF st.res # "go" \/ st.k >= Len(code) THEN st
  ELSE IF k = 0 THEN read_scan_step(code, st.k, st.q)
  ELSE read_scan_run(code, read_scan_run(code, st, k - 1), k - 1)

read_scan(code, i) ==
  LET r == read_scan_run(code, [k |-> i, q |-> "", res |-> "go"], bits(Len(code)))
  IN IF r.res = "found" THEN r.k ELSE -1

\* read_sort_stmt from the assignment of fields on
read_sort_stmt_from_fields(itab, indent, fields) ==
  IF fields # <<>>
  THEN indent \o "SORT " \o itab \o " BY " \o join_with(" ", fields) \o "."
  ELSE indent \o "SORT " \o itab \o "."

\* The SORT statement process_read inserts ahead of a READ
read_sort_stmt(read_stmt, itab, indent) ==
  IF read_has_index(read_stmt)
  THEN indent \o "SORT " \o itab \o "."
  ELSE read_sort_stmt_from_fields(itab, indent, extract_key_fields(read_stmt))

\* process_read_iter_from_itab without the tag line after the inserted SORT
process_read_iter_untagged(code, i, tag, read_pos, before, period_pos, read_stmt, itab) ==
  (LET whole == as_is(slice(code, read_pos, period_pos + 1))
       indent == get_line_indent_before(code, read_pos)
   IN IF \/ itab = ""
         \/ ~(read_has_index(read_stmt) \/ read_has_key(read_stmt))
         \/ is_sort_immediately_before(code, read_pos, itab)
      THEN [i |-> period_pos + 1, stop |-> FALSE,
            parts |-> << before, whole >>]
      ELSE [i |-> period_pos + 1, stop |-> FALSE,
            parts |->
              << before,
                 part("ins", read_sort_stmt(read_stmt, itab, indent) \o "\n",
                      "", read_pos),
                 whole >>])

\* process_read_iter from the assignment of itab on
process_read_iter_from_itab(code, i, tag, read_pos, before, period_pos, read_stmt, itab) ==
  (LET whole == as_is(slice(code, read_pos, period_pos + 1))
       indent == get_line_indent_before(code, read_pos)
   IN IF \/ itab = ""
         \/ ~(read_has_index(read_stmt) \/ read_has_key(read_stmt))
         \/ is_sort_immediately_before(code, read_pos, itab)
      THEN [i |-> period_pos + 1, stop |-> FALSE,
            parts |-> << before, whole >>]
      ELSE [i |-> period_pos + 1, stop |-> FALSE,
            parts |->
              << before,
                 part("ins", read_sort_stmt(read_stmt, itab, indent) \o "\n",
                      "", read_pos),
                 part("tag", indent \o tag, "", read_pos),
                 whole >>])

\* process_read_iter from the assignment of read_pos on
process_read_iter_from_read_pos(code, i, tag, read_pos) ==
  IF read_pos = -1
  THEN [i |-> i, parts |-> << as_is(tail_from(code, i)) >>, stop |-> TRUE]
  ELSE
    (LET before == as_is(slice(code, i, read_pos))
         period_pos == read_find_statement_period(code, read_pos)
     IN IF period_pos = -1
        THEN [i |-> i, stop |-> TRUE,
              parts |-> << before, as_is(tail_from(code, read_pos)) >>]
        ELSE
          (LET read_stmt == slice(code, read_pos, period_pos)
           IN process_read_iter_from_itab(code, i, tag, read_pos, before, period_pos, read_stmt,
                extract_itab(read_stmt))))

\* One iteration of process_read's outer loop at cursor i < n
process_read_iter(code, i, tag) ==
  process_read_iter_from_read_pos(code, i, tag, read_scan(code, i))

RECURSIVE process_read_parts(_, _, _)
process_read_parts(code, i, tag) ==
  IF i >= Len(code) THEN <<>>
  ELSE (LET r == process_read_iter(code, i, tag)
        IN IF r.stop THEN r.parts
           ELSE r.parts \o process_read_parts(code, r.i, tag))

process_read(code, today) ==
  parts_text(process_read_parts(code, 0, pwc_tag_line(today)))

(***************************************************************************)
(* app/sort.py: process_sort                                               *)
(***************************************************************************)
sort_fsp_step(s, i, q) ==
  LET c == ch(s, i)
  IN IF q = ""
     THEN IF c = "\""
          THEN [i |-> skip_line_comment(s, i), q |-> "", hit |-> FALSE]
          ELSE IF star_at_bol(s, i)
          THEN [i |-> skip_full_line_star_comment(s, i), q |-> "", hit |-> FALSE]
          ELSE IF c \in QuoteChars
          THEN [i |-> i + 1, q |-> c, hit |-> FALSE]
          ELSE IF c = "."
          THEN [i |-> i, q |-> "", hit |-> TRUE]
          ELSE [i |-> i + 1, q |-> "", hit |-> FALSE]
     ELSE LET r == in_string_step(s, i, q)
          IN [i |-> r.i, q |-> r.q, hit |-> FALSE]

RECURSIVE sort_fsp_run(_, _, _)
sort_fsp_run(s, st, k) ==
  IF st.hit \/ st.i >= Len(s) THEN st
  ELSE IF k = 0 THEN sort_fsp_step(s, st.i, st.q)
  ELSE sort_fsp_run(s, sort_fsp_run(s, st, k - 1), k - 1)

sort_find_statement_period(s, start) ==
  LET r == sort_fsp_run(s, [i |-> start, q |-> "", hit |-> FALSE], bits(Len(s)))
  IN IF r.hit THEN r.i ELSE -1

sort_find_kw_step(s, kw, i, q) ==
  LET c == ch(s, i)
  IN IF q = ""
     THEN IF c = "\""
          THEN [i |-> skip_line_comment(s, i) + 1, q |-> "", hit |-> FALSE]
          ELSE IF star_at_bol(s, i)
          THEN [i |-> skip_full_line_star_comment(s, i) + 1, q |-> "", hit |-> FALSE]
          ELSE IF c \in QuoteChars
          THEN [i |-> i + 1, q |-> c, hit |-> FALSE]
          ELSE IF match_kw_at(s, i, kw)
          THEN [i |-> i, q |-> "", hit |-> TRUE]
          ELSE [i |-> i + 1, q |-> "", hit |-> FALSE]
     ELSE LET r == in_string_step(s, i, q)
          IN [i |-> r.i, q |-> r.q, hit |-> FALSE]

RECURSIVE sort_find_kw_run(_, _, _, _)
sort_find_kw_run(s, kw, st, k) ==
  IF st.hit \/ st.i >= Len(s) THEN st
  ELSE IF k = 0 THEN sort_find_kw_step(s, kw, st.i, st.q)
  ELSE sort_find_kw_run(s, kw, sort_find_kw_run(s, kw, st, k - 1), k - 1)

sort_find_kw(s, kw, start) ==
  LET r == sort_find_kw_run(s, kw, [i |-> start, q |-> "", hit |-> FALSE], bits(Len(s)))
  IN IF r.hit THEN r.i ELSE -1

at_statement_lead(s, pos) ==
  LET nl == rfind(s, "\n", pos)
      ls == IF nl = -1 THEN 0 ELSE nl + 1
      p == first_pos(s, {" ", "\t"}, FALSE, ls, pos)
      k == IF p = -1 THEN pos ELSE p
  IN IF k < Len(s) /\ ch(s, k) = "*" THEN FALSE ELSE k = pos

\* One round of next_executable_line_start at cursor i < n: away from a line
\* start the cursor runs on to the next one; ret is -2 while the loop goes on
next_exec_step(s, i) ==
  LET n == Len(s)
      j == run_end(s, {" ", "\t"}, i)
      nl == find(s, "\n", i)
  IN IF i = 0 \/ ch(s, i - 1) = "\n"
     THEN IF j >= n THEN [i |-> i, ret |-> n]
          ELSE IF ch(s, j) = "\n" THEN [i |-> j + 1, ret |-> -2]
          ELSE IF ch(s, j) = "*"
          THEN [i |-> skip_full_line_star_comment(s, j) + 1, ret |-> -2]
          ELSE IF ch(s, j) = "\""
          THEN [i |-> skip_line_comment(s, j) + 1, ret |-> -2]
          ELSE [i |-> i, ret |-> j]
     ELSE [i |-> IF nl = -1 THEN n ELSE nl + 1, ret |-> -2]

RECURSIVE next_exec_run(_, _, _)
next_exec_run(s, st, k) ==
  IF st.ret # -2 \/ st.i >= Len(s) THEN st
  ELSE IF k = 0 THEN next_exec_step(s, st.i)
  ELSE next_exec_run(s, next_exec_run(s, st, k - 1), k - 1)

next_executable_line_start(s, start) ==
  LET r == next_exec_run(s, [i |-> start, ret |-> -2], bits(Len(s)))
  IN IF r.ret # -2 THEN r.ret ELSE Len(s)

\* fae_re.search(stmt): a search of the statement's raw text
has_for_all_entries(stmt) == phrase_search(stmt, << "for", "all", "entries" >>) # -1

\* words_ws_at from the assignment of e on
words_ws_at_from_e(s, e) ==
  (LET f == IF e = -1 THEN -1 ELSE run_end(s, SpaceSet, e)
   IN IF e = -1 \/ f = e THEN -1 ELSE f)

\* One optional group of words followed by \s+: the position after it, or -1
words_ws_at(s, p, words) ==
  words_ws_at_from_e(s, words_at(s, p, words))

\* The span of a group that did not match, and the first span that matched
NoSpan == [a |-> -1, b |-> -1]
span_or(x, y) == IF x.a # -1 THEN x ELSE y

\* target_name_at from the assignment of b on
target_name_at_from_b(s, p, a, b) ==
  (LET c == IF b = -1 THEN -1 ELSE run_end(s, SpaceSet, b)
   IN IF c # -1 /\ c < Len(s) /\ ch(s, c) = ")" THEN [a |-> a, b |-> b]
      ELSE
        (LET p2 == IF p < Len(s) /\ ch(s, p) = "@" /\ ident_at(s, p + 1) # -1
                   THEN p + 1 ELSE p
             e == ident_at(s, p2)
         IN IF e # -1 THEN [a |-> p2, b |-> e] ELSE NoSpan))

\* target_name_at from the assignment of a on
target_name_at_from_a(s, p, a) ==
  target_name_at_from_b(s, p, a, IF a = -1 THEN -1 ELSE ident_at(s, a))

\* @data\s*\(\s*(name)\s*\) | @?(name) matched at p: the span of the name
target_name_at(s, p) ==
  (LET d == IF lower(slice(s, p, p + 5)) = "@data"
            THEN run_end(s, SpaceSet, p + 5) ELSE -1
   IN target_name_at_from_a(s, p, IF d # -1 /\ d < Len(s) /\ ch(s, d) = "("
                                  THEN run_end(s, SpaceSet, d + 1) ELSE -1))

\* target_at from the assignment of cf on
target_at_from_cf(s, w, cf) ==
  (LET cft == IF cf = -1 THEN -1 ELSE words_ws_at(s, cf, << "table" >>)
       t == words_ws_at(s, w, << "table" >>)
   IN span_or(IF cft # -1 THEN target_name_at(s, cft) ELSE NoSpan,
      span_or(IF cf # -1 THEN target_name_at(s, cf) ELSE NoSpan,
      span_or(IF t # -1 THEN target_name_at(s, t) ELSE NoSpan,
              target_name_at(s, w)))))

\* target_tbl_re matched at p, the optional groups tried in the order of the
\* regular expression's backtracking: the span of the table name
target_at(s, p) ==
  (LET w == IF ~re_boundary(s, p) THEN -1
            ELSE or_else(words_ws_at(s, p, << "into" >>),
                         words_ws_at(s, p, << "appending" >>))
   IN IF w = -1 THEN NoSpan
      ELSE
        target_at_from_cf(s, w, words_ws_at(s, w, << "corresponding", "fields", "of" >>)))

\* extract_target_table from the assignment of m on
extract_target_table_from_m(stmt, m) ==
  slice(stmt, m.a, m.b)

\* extract_target_table from the assignment of S on
extract_target_table_from_S(stmt, S) ==
  IF S = {} THEN ""
  ELSE extract_target_table_from_m(stmt, target_at(stmt, least(S)))

\* The target table of the statement, "" when there is no match (None)
extract_target_table(stmt) ==
  extract_target_table_from_S(stmt,
    {x \in 0..(Len(stmt) - 1) :
       ch(stmt, x) \in {"i", "I", "a", "A"} /\ target_at(stmt, x).a # -1})

sort_extract_select_list(stmt) ==
  (LET sel_idx == sort_find_kw(stmt, "select", 0)
   IN IF sel_idx = -1 THEN ""
      ELSE (LET i == run_end(stmt, SpaceSet, sel_idx + 6)
                from_idx == sort_find_kw(stmt, "from", i)
            IN IF from_idx = -1 THEN "" ELSE strip(slice(stmt, i, from_idx))))

startswith(s, pre) == Len(s) >= Len(pre) /\ slice(s, 0, Len(pre)) = pre
endswith(s, suf) == Len(s) >= Len(suf) /\ tail_from(s, Len(s) - Len(suf)) = suf
contains(s, c) == find(s, c, 0) # -1

\* str.split: the maximal runs of characters outside the separator set C
split_runs_step(s, C, st) ==
  LET a == run_end(s, C, st.i)
      p == first_pos(s, C, TRUE, a, Len(s))
      b == IF p = -1 THEN Len(s) ELSE p
  IN IF a >= Len(s) THEN [i |-> a, toks |-> st.toks]
     ELSE [i |-> b, toks |-> Append(st.toks, slice(s, a, b))]

RECURSIVE split_runs_run(_, _, _, _)
split_runs_run(s, C, st, k) ==
  IF st.i >= Len(s) THEN st
  ELSE IF k = 0 THEN split_runs_step(s, C, st)
  ELSE split_runs_run(s, C, split_runs_run(s, C, st, k - 1), k - 1)

split_runs(s, C) == split_runs_run(s, C, [i |-> 0, toks |-> <<>>], bits(Len(s))).toks

split_ws(s) == split_runs(s, SpaceSet)

\* One round of the tokenizer of split_fields at cursor i < n
split_items_step(s, st) ==
  LET c == ch(s, st.i)
      item == strip(st.buf)
      dbl == st.i + 1 < Len(s) /\ ch(s, st.i + 1) = c
  IN IF st.q = ""
     THEN IF c \in QuoteChars
          THEN [st EXCEPT !.i = @ + 1, !.q = c, !.buf = @ \o c]
          ELSE IF c = "("
          THEN [st EXCEPT !.i = @ + 1, !.depth = @ + 1, !.buf = @ \o c]
          ELSE IF c = ")"
          THEN [st EXCEPT !.i = @ + 1, !.depth = IF @ > 0 THEN @ - 1 ELSE 0,
                          !.buf = @ \o c]
          ELSE IF st.depth = 0 /\ c = ","
          THEN [st EXCEPT !.i = @ + 1, !.buf = "",
                          !.items = IF item # "" THEN Append(@, item) ELSE @]
          ELSE [st EXCEPT !.i = @ + 1, !.buf = @ \o c]
     ELSE IF c = st.q
          THEN IF dbl THEN [st EXCEPT !.i = @ + 2, !.buf = @ \o c \o c]
               ELSE [st EXCEPT !.i = @ + 1, !.q = "", !.buf = @ \o c]
          ELSE [st EXCEPT !.i = @ + 1, !.buf = @ \o c]

RECURSIVE split_items_run(_, _, _)
split_items_run(s, st, k) ==
  IF st.i >= Len(s) THEN st
  ELSE IF k = 0 THEN split_items_step(s, st)
  ELSE split_items_run(s, split_items_run(s, st, k - 1), k - 1)

split_items(s) ==
  (LET r == split_items_run(s, [i |-> 0, q |-> "", depth |-> 0, buf |-> "",
                                items |-> <<>>], bits(Len(s)))
       last == strip(r.buf)
   IN IF last # "" THEN Append(r.items, last) ELSE r.items)

\* The items of a list without commas: one per token, and "x AS y" as well
RECURSIVE sort_items_of_tokens(_, _, _)
sort_items_of_tokens(tokens, k, items) ==
  IF k > Len(tokens) THEN items
  ELSE IF lower(tokens[k]) = "as" /\ k + 1 <= Len(tokens)
  THEN sort_items_of_tokens(tokens, k + 2,
         Append(items, IF items # <<>>
                       THEN tokens[k - 1] \o " AS " \o tokens[k + 1]
                       ELSE "AS " \o tokens[k + 1]))
  ELSE sort_items_of_tokens(tokens, k + 1, Append(items, tokens[k]))

first_token(s) ==
  LET p == first_pos(s, SpaceSet, TRUE, 0, Len(s))
  IN IF p = -1 THEN s ELSE slice(s, 0, p)

rstrip_chars(s, C) ==
  LET p == last_pos(s, C, FALSE, 0, Len(s)) IN slice(s, 0, p + 1)

lstrip_chars(s, C) == tail_from(s, run_end(s, C, 0))

after_last(s, c) == tail_from(s, rfind(s, c, Len(s)) + 1)

is_identifier(t) == t # "" /\ ident_at(t, 0) = Len(t)

\* sort_field_of_item from the assignment of t2 on
sort_field_of_item_from_t2(t0, alias, t2) ==
  (LET t3 == IF endswith(t2, ",") THEN strip(slice(t2, 0, Len(t2) - 1)) ELSE t2
       t4 == lstrip_chars(t3, {"@"})
   IN IF t0 = "" THEN ""
      ELSE IF alias # "" THEN alias
      ELSE IF contains(t3, "(") \/ contains(t3, ")") THEN ""
      ELSE IF lower(t3) = "distinct" THEN ""
      ELSE IF is_identifier(t4) THEN t4
      ELSE "")

\* sort_field_of_item from the assignment of m_as on
sort_field_of_item_from_m_as(t0, t1, m_as) ==
  (LET alias0 == IF m_as = -1 THEN "" ELSE strip(tail_from(t1, m_as + 2))
       alias == IF alias0 = "" THEN "" ELSE strip(rstrip_chars(first_token(alias0), {","}))
   IN sort_field_of_item_from_t2(t0, alias,
        IF contains(t1, "~") THEN strip(after_last(t1, "~")) ELSE t1))

\* The component name split_fields of sort.py makes of one item, "" for an
\* item it drops
sort_field_of_item(it) ==
  (LET t0 == strip(it)
       inner == strip(slice(t0, 1, Len(t0) - 1))
       t1 == IF startswith(t0, "(") /\ endswith(t0, ")") /\ inner # "" THEN inner ELSE t0
   IN sort_field_of_item_from_m_as(t0, t1, phrase_search(t1, << "as" >>)))

RECURSIVE sort_fields_of_items(_, _, _, _)
\* sort_fields_of_items from the assignment of f on
sort_fields_of_items_from_f(items, k, res, seen, f) ==
  IF f = "" \/ lower(f) \in seen
  THEN sort_fields_of_items(items, k + 1, res, seen)
  ELSE sort_fields_of_items(items, k + 1, Append(res, f),
                            seen \cup {lower(f)})

\* The fields of the items in order, without the dropped ones and without
\* repetitions (compared in lower case)
sort_fields_of_items(items, k, res, seen) ==
  IF k > Len(items) THEN res
  ELSE sort_fields_of_items_from_f(items, k, res, seen, sort_field_of_item(items[k]))

sort_split_fields(field_segment) ==
  (LET s0 == strip(field_segment)
   IN IF s0 = "" THEN <<>>
      ELSE
        (LET s == IF startswith(lower(s0), "distinct") THEN lstrip(tail_from(s0, 8)) ELSE s0
         IN IF s = "*" \/ startswith(s, "(") THEN << "*" >>
            ELSE sort_fields_of_items(
                   IF contains(field_segment, ",") THEN split_items(s)
                   ELSE sort_items_of_tokens(split_ws(s), 1, <<>>),
                   1, <<>>, {})))

\* is_sort_immediately_next_for_target finding no SORT whatever follows
no_sort_immediately_next(s, period_pos, target) == FALSE

\* is_sort_immediately_next_for_target from the assignment of t on
is_sort_immediately_next_for_target_from_t(target, t) ==
  t # "" /\ lower(t) = lower(target)

\* ^sort\s+([A-Za-z_]\w*)\b against the next executable line
is_sort_immediately_next_for_target(s, period_pos, target) ==
  (LET start == next_executable_line_start(s, period_pos + 1)
   IN is_sort_immediately_next_for_target_from_t(target,
        IF start >= Len(s) THEN ""
        ELSE sort_target_of(code_of_line(s, start), FALSE)))

\* One iteration of the scan for the next SELECT at statement lead
sort_scan_step(code, k, q) ==
  LET n == Len(code)
      c == ch(code, k)
  IN IF q = ""
     THEN IF c = "\"" \/ star_at_bol(code, k)
          THEN LET e == skip_line_comment(code, k)
               IN [k |-> IF e < n THEN e + 1 ELSE e, q |-> "", res |-> "go"]
          ELSE IF c \in QuoteChars
          THEN [k |-> k + 1, q |-> c, res |-> "go"]
          ELSE IF /\ c \in {"s", "S"}
                  /\ lower(slice(code, k, k + 6)) = "select"
                  /\ (k + 6 = n \/ ~is_word_char(ch(code, k + 6)))
                  /\ at_statement_lead(code, k)
          THEN [k |-> k, q |-> "", res |-> "found"]
          ELSE [k |-> k + 1, q |-> "", res |-> "go"]
     ELSE LET r == in_string_step(code, k, q)
          IN [k |-> r.i, q |-> r.q, res |-> "go"]

RECURSIVE sort_scan_run(_, _, _)
sort_scan_run(code, st, k) ==
  IF st.res # "go" \/ st.k >= Len(code) THEN st
  ELSE IF k = 0 THEN sort_scan_step(code, st.k, st.q)
  ELSE sort_scan_run(code, sort_scan_run(code, st, k - 1), k - 1)

sort_scan(code, i) ==
  LET r == sort_scan_run(code, [k |-> i, q |-> "", res |-> "go"], bits(Len(code)))
  IN IF r.res = "found" THEN r.k ELSE -1

\* sort_sort_stmt from the assignment of fields on
\* sort_sort_stmt_from_fields with the field names put in upper case
sort_sort_stmt_from_fields_upper(target, indent, fields) ==
  IF fields = <<>> \/ \E k \in DOMAIN fields : strip(fields[k]) = "*"
  THEN indent \o "SORT " \o target \o "."
  ELSE indent \o "SORT " \o target \o " BY " \o upper(join_with(" ", fields)) \o "."

sort_sort_stmt_from_fields(target, indent, fields) ==
  IF fields = <<>> \/ \E k \in DOMAIN fields : strip(fields[k]) = "*"
  THEN indent \o "SORT " \o target \o "."
  ELSE indent \o "SORT " \o target \o " BY " \o join_with(" ", fields) \o "."

\* sort_sort_stmt with the field list left out
sort_sort_stmt_bare(stmt, target, indent) == indent \o "SORT " \o target \o "."

\* The SORT statement process_sort inserts after a SELECT
sort_sort_stmt(stmt, target, indent) ==
  sort_sort_stmt_from_fields(target, indent,
    sort_split_fields(sort_extract_select_list(stmt)))

\* process_sort_iter from the assignment of target on
process_sort_iter_from_target(code, i, tag, sel_pos, before, period_pos, stmt, target) ==
  (LET whole == as_is(slice(code, sel_pos, period_pos + 1))
       indent == get_line_indent_before(code, sel_pos)
   IN IF \/ ~has_for_all_entries(stmt)
         \/ target = ""
         \/ is_sort_immediately_next_for_target(code, period_pos, target)
      THEN [i |-> period_pos + 1, stop |-> FALSE,
            parts |-> << before, whole >>]
      ELSE [i |-> period_pos + 1, stop |-> FALSE,
            parts |->
              << before, whole,
                 part("ins",
                      "\n" \o sort_sort_stmt(stmt, target, indent) \o "\n",
                      "", sel_pos),
                 part("tag", indent \o tag, "", sel_pos) >>])

\* process_sort_iter_from_sel_pos without the append of the text from the
\* SELECT on when the statement has no terminator
process_sort_iter_drops_unterminated(code, i, tag, sel_pos) ==
  IF sel_pos = -1
  THEN [i |-> i, parts |-> << as_is(tail_from(code, i)) >>, stop |-> TRUE]
  ELSE IF sort_find_statement_period(code, sel_pos) = -1
  THEN [i |-> i, stop |-> TRUE, parts |-> << as_is(slice(code, i, sel_pos)) >>]
  ELSE process_sort_iter_from_target(code, i, tag, sel_pos,
         as_is(slice(code, i, sel_pos)),
         sort_find_statement_period(code, sel_pos),
         slice(code, sel_pos, sort_find_statement_period(code, sel_pos)),
         extract_target_table(
           slice(code, sel_pos, sort_find_statement_period(code, sel_pos))))

\* process_sort_iter from the assignment of sel_pos on
process_sort_iter_from_sel_pos(code, i, tag, sel_pos) ==
  IF sel_pos = -1
  THEN [i |-> i, parts |-> << as_is(tail_from(code, i)) >>, stop |-> TRUE]
  ELSE
    (LET before == as_is(slice(code, i, sel_pos))
         period_pos == sort_find_statement_period(code, sel_pos)
     IN IF period_pos = -1
        THEN [i |-> i, stop |-> TRUE,
              parts |-> << before, as_is(tail_from(code, sel_pos)) >>]
        ELSE
          (LET stmt == slice(code, sel_pos, period_pos)
           IN process_sort_iter_from_target(code, i, tag, sel_pos, before, period_pos, stmt,
                extract_target_table(stmt))))

\* One iteration of process_sort's outer loop at cursor i < n
process_sort_iter(code, i, tag) ==
  process_sort_iter_from_sel_pos(code, i, tag, sort_scan(code, i))

RECURSIVE process_sort_parts(_, _, _)
process_sort_parts(code, i, tag) ==
  IF i >= Len(code) THEN <<>>
  ELSE (LET r == process_sort_iter(code, i, tag)
        IN IF r.stop THEN r.parts
           ELSE r.parts \o process_sort_parts(code, r.i, tag))

process_sort(code, today) ==
  parts_text(process_sort_parts(code, 0, pwc_tag_line(today)))

(***************************************************************************)
(* app/orderby.py: process_orderby                                         *)
(***************************************************************************)
orderby_fsp_step(s, i, q) ==
  LET c == ch(s, i)
  IN IF q = ""
     THEN IF c = "\""
          THEN [i |-> skip_line_comment(s, i), q |-> "", hit |-> FALSE]
          ELSE IF star_at_bol(s, i)
          THEN [i |-> skip_full_line_star_comment(s, i), q |-> "", hit |-> FALSE]
          ELSE IF c \in QuoteChars
          THEN [i |-> i + 1, q |-> c, hit |-> FALSE]
          ELSE IF c = "."
          THEN [i |-> i, q |-> "", hit |-> TRUE]
          ELSE [i |-> i + 1, q |-> "", hit |-> FALSE]
     ELSE LET r == in_string_step(s, i, q)
          IN [i |-> r.i, q |-> r.q, hit |-> FALSE]

RECURSIVE orderby_fsp_run(_, _, _)
orderby_fsp_run(s, st, k) ==
  IF st.hit \/ st.i >= Len(s) THEN st
  ELSE IF k = 0 THEN orderby_fsp_step(s, st.i, st.q)
  ELSE orderby_fsp_run(s, orderby_fsp_run(s, st, k - 1), k - 1)

orderby_find_statement_period(s, start) ==
  LET r == orderby_fsp_run(s, [i |-> start, q |-> "", hit |-> FALSE], bits(Len(s)))
  IN IF r.hit THEN r.i ELSE -1

orderby_find_kw_step(s, kw, i, q) ==
  LET c == ch(s, i)
  IN IF q = ""
     THEN IF c = "\""
          THEN [i |-> skip_line_comment(s, i) + 1, q |-> "", hit |-> FALSE]
          ELSE IF star_at_bol(s, i)
          THEN [i |-> skip_full_line_star_comment(s, i) + 1, q |-> "", hit |-> FALSE]
          ELSE IF c \in QuoteChars
          THEN [i |-> i + 1, q |-> c, hit |-> FALSE]
          ELSE IF match_kw_at(s, i, kw)
          THEN [i |-> i, q |-> "", hit |-> TRUE]
          ELSE [i |-> i + 1, q |-> "", hit |-> FALSE]
     ELSE LET r == in_string_step(s, i, q)
          IN [i |-> r.i, q |-> r.q, hit |-> FALSE]

RECURSIVE orderby_find_kw_run(_, _, _, _)
orderby_find_kw_run(s, kw, st, k) ==
  IF st.hit \/ st.i >= Len(s) THEN st
  ELSE IF k = 0 THEN orderby_find_kw_step(s, kw, st.i, st.q)
  ELSE orderby_find_kw_run(s, kw, orderby_find_kw_run(s, kw, st, k - 1), k - 1)

orderby_find_kw(s, kw, start) ==
  LET r == orderby_find_kw_run(s, kw, [i |-> start, q |-> "", hit |-> FALSE],
                               bits(Len(s)))
  IN IF r.hit THEN r.i ELSE -1

\* One round of find_phrase at cursor i < n: at the first character in Code
\* state that opens neither a comment nor a literal the regular expression is
\* searched from i to the end of s, and the loop returns. ret is -2 while
\* the loop goes on.
find_phrase_step(s, words, i, q) ==
  LET c == ch(s, i)
  IN IF q = ""
     THEN IF c = "\""
          THEN [i |-> skip_line_comment(s, i) + 1, q |-> "", ret |-> -2]
          ELSE IF star_at_bol(s, i)
          THEN [i |-> skip_full_line_star_comment(s, i) + 1, q |-> "", ret |-> -2]
          ELSE IF c \in QuoteChars
          THEN [i |-> i + 1, q |-> c, ret |-> -2]
          ELSE [i |-> i, q |-> "",
                ret |-> least({p \in i..(Len(s) - 1) : phrase_at(s, p, words) # -1})]
     ELSE LET r == in_string_step(s, i, q)
          IN [i |-> r.i, q |-> r.q, ret |-> -2]

RECURSIVE find_phrase_run(_, _, _, _)
find_phrase_run(s, words, st, k) ==
  IF st.ret # -2 \/ st.i >= Len(s) THEN st
  ELSE IF k = 0 THEN find_phrase_step(s, words, st.i, st.q)
  ELSE find_phrase_run(s, words, find_phrase_run(s, words, st, k - 1), k - 1)

find_phrase(s, words, start) ==
  LET r == find_phrase_run(s, words, [i |-> start, q |-> "", ret |-> -2], bits(Len(s)))
  IN IF r.ret # -2 THEN r.ret ELSE -1

orderby_at_statement_lead(s, pos) ==
  LET nl == rfind(s, "\n", pos)
      ls == IF nl = -1 THEN 0 ELSE nl + 1
      p == first_pos(s, {" ", "\t"}, FALSE, ls, pos)
      k == IF p = -1 THEN pos ELSE p
  IN IF k < Len(s) /\ ch(s, k) = "*" THEN FALSE ELSE k = pos

\* re.sub of [ \t]+ : every run of spaces and tabs becomes one space
nspn_step(text, st) ==
  LET p == first_pos(text, {" ", "\t"}, TRUE, st.i, Len(text))
      e == IF p = -1 THEN Len(text) ELSE p
  IN IF ch(text, st.i) \in {" ", "\t"}
     THEN [i |-> run_end(text, {" ", "\t"}, st.i), out |-> st.out \o " "]
     ELSE [i |-> e, out |-> st.out \o slice(text, st.i, e)]

RECURSIVE nspn_run(_, _, _)
nspn_run(text, st, k) ==
  IF st.i >= Len(text) THEN st
  ELSE IF k = 0 THEN nspn_step(text, st)
  ELSE nspn_run(text, nspn_run(text, st, k - 1), k - 1)

normalize_spaces_preserve_newlines(text) ==
  nspn_run(text, [i |-> 0, out |-> ""], bits(Len(text))).out

orderby_extract_select_list(stmt) ==
  (LET sel_idx == orderby_find_kw(stmt, "select", 0)
   IN IF sel_idx = -1 THEN ""
      ELSE (LET i == run_end(stmt, SpaceSet, sel_idx + 6)
                from_idx == orderby_find_kw(stmt, "from", i)
            IN IF from_idx = -1 THEN "" ELSE strip(slice(stmt, i, from_idx))))

\* One round of the tokenizer of orderby.py's split_fields at cursor i < n
orderby_split_items_step(s, st) ==
  LET c == ch(s, st.i)
      item == strip(st.buf)
      dbl == st.i + 1 < Len(s) /\ ch(s, st.i + 1) = c
  IN IF st.q = ""
     THEN IF c \in QuoteChars
          THEN [st EXCEPT !.i = @ + 1, !.q = c, !.buf = @ \o c]
          ELSE IF c = "("
          THEN [st EXCEPT !.i = @ + 1, !.depth = @ + 1, !.buf = @ \o c]
          ELSE IF c = ")"
          THEN [st EXCEPT !.i = @ + 1, !.depth = IF @ > 0 THEN @ - 1 ELSE 0,
                          !.buf = @ \o c]
          ELSE IF st.depth = 0 /\ c = ","
          THEN [st EXCEPT !.i = @ + 1, !.buf = "",
                          !.items = IF item # "" THEN Append(@, item) ELSE @]
          ELSE IF st.depth = 0 /\ isspace(c)
          THEN [st EXCEPT !.i = @ + 1,
                          !.buf = IF @ # "" /\ ch(@, Len(@) - 1) # " "
                                  THEN @ \o " " ELSE @]
          ELSE [st EXCEPT !.i = @ + 1, !.buf = @ \o c]
     ELSE IF c = st.q
          THEN IF dbl THEN [st EXCEPT !.i = @ + 2, !.buf = @ \o c \o c]
               ELSE [st EXCEPT !.i = @ + 1, !.q = "", !.buf = @ \o c]
          ELSE [st EXCEPT !.i = @ + 1, !.buf = @ \o c]

RECURSIVE orderby_split_items_run(_, _, _)
orderby_split_items_run(s, st, k) ==
  IF st.i >= Len(s) THEN st
  ELSE IF k = 0 THEN orderby_split_items_step(s, st)
  ELSE orderby_split_items_run(s, orderby_split_items_run(s, st, k - 1), k - 1)

orderby_split_items(s) ==
  (LET r == orderby_split_items_run(s, [i |-> 0, q |-> "", depth |-> 0, buf |-> "",
                                        items |-> <<>>], bits(Len(s)))
       last == strip(r.buf)
   IN IF last # "" THEN Append(r.items, last) ELSE r.items)

\* The loop over the tokens of one item of a list: curr and final_items as
\* the code keeps them
RECURSIVE orderby_merge_tokens(_, _, _, _)
orderby_merge_tokens(toks, k, curr, final) ==
  IF k > Len(toks)
  THEN IF curr # <<>> THEN Append(final, join_with(" ", curr)) ELSE final
  ELSE LET tok == toks[k]
       IN IF lower(tok) = "as" /\ curr # <<>>
          THEN IF k + 1 <= Len(toks)
               THEN orderby_merge_tokens(toks, k + 2, <<>>, Append(final, toks[k + 1]))
               ELSE orderby_merge_tokens(toks, k + 1, curr, final)
          ELSE IF lower(tok) = "distinct"
          THEN orderby_merge_tokens(toks, k + 1, curr, final)
          ELSE IF k + 1 <= Len(toks)
          THEN orderby_merge_tokens(toks, k + 1, <<>>,
                 Append(final, join_with(" ", Append(curr, tok))))
          ELSE orderby_merge_tokens(toks, k + 1, Append(curr, tok), final)

RECURSIVE orderby_final_spaces(_, _, _)
orderby_final_spaces(items, k, final) ==
  IF k > Len(items) THEN final
  ELSE orderby_final_spaces(items, k + 1,
         orderby_merge_tokens(split_runs(strip(items[k]), {" "}), 1, <<>>, final))

\* alias_or_item from the assignment of m on
alias_or_item_from_m(it, m) ==
  IF m = -1 THEN strip(it)
  ELSE (LET rest == strip(tail_from(it, m + 2))
            alias == IF rest = "" THEN "" ELSE first_token(rest)
        IN IF alias # "" THEN alias ELSE strip(slice(it, 0, m)))

\* The alias after AS, or else the text before AS; the item itself without AS
alias_or_item(it) ==
  alias_or_item_from_m(it, phrase_search(it, << "as" >>))

RECURSIVE orderby_final_commas(_, _)
orderby_final_commas(items, k) ==
  IF k > Len(items) THEN <<>>
  ELSE << alias_or_item(items[k]) >> \o orderby_final_commas(items, k + 1)

RECURSIVE orderby_cleaned(_, _)
orderby_cleaned(final, k) ==
  IF k > Len(final) THEN <<>>
  ELSE (LET x == strip(final[k])
        IN (IF x = "" \/ lower(x) = "distinct" THEN <<>> ELSE << x >>)
           \o orderby_cleaned(final, k + 1))

orderby_split_fields(field_segment) ==
  (LET s == strip(field_segment)
   IN IF s = "" THEN <<>>
      ELSE IF s = "*" \/ startswith(s, "(") THEN << "*" >>
      ELSE (LET items == orderby_split_items(s)
            IN orderby_cleaned(IF contains(field_segment, ",")
                               THEN orderby_final_commas(items, 1)
                               ELSE orderby_final_spaces(items, 1, <<>>),
                               1)))

\* ^[A-Za-z_]\w*(~[A-Za-z_]\w*)?$
is_qualified_identifier(t) ==
  LET e == ident_at(t, 0)
  IN /\ e # -1
     /\ \/ e = Len(t)
        \/ ch(t, e) = "~" /\ ident_at(t, e + 1) = Len(t)

\* orderby_clean_field from the assignment of t2 on
orderby_clean_field_from_t2(t2) ==
  (LET inner == strip(slice(t2, 1, Len(t2) - 1))
   IN IF startswith(t2, "(") /\ endswith(t2, ")") /\ is_qualified_identifier(inner)
      THEN inner ELSE t2)

\* The item the main loop makes of one field, "-" marking a field it drops
orderby_clean_field(f) ==
  (LET t0 == strip(f)
       t1 == IF endswith(t0, ",") THEN strip(slice(t0, 0, Len(t0) - 1)) ELSE t0
   IN orderby_clean_field_from_t2(
        IF phrase_search(t1, << "as" >>) # -1 THEN alias_or_item(t1) ELSE t1))

RECURSIVE orderby_ordered(_, _, _, _)
\* orderby_ordered from the assignment of t on
orderby_ordered_from_t(fields, k, res, seen, t) ==
  IF lower(t) \in seen THEN orderby_ordered(fields, k + 1, res, seen)
  ELSE orderby_ordered(fields, k + 1, Append(res, t), seen \cup {lower(t)})

orderby_ordered(fields, k, res, seen) ==
  IF k > Len(fields) THEN res
  ELSE IF strip(fields[k]) = "" THEN orderby_ordered(fields, k + 1, res, seen)
  ELSE orderby_ordered_from_t(fields, k, res, seen, orderby_clean_field(fields[k]))

\* orderby_clause from the assignment of ordered on
orderby_clause_from_ordered(ordered) ==
  " ORDER BY " \o join_with(", ", IF ordered # <<>> THEN ordered
                                  ELSE << "PRIMARY KEY" >>)

\* orderby_clause from the assignment of fields on
orderby_clause_from_fields(fields) ==
  IF fields = <<>> \/ \E k \in DOMAIN fields : strip(fields[k]) = "*"
  THEN " ORDER BY PRIMARY KEY"
  ELSE orderby_clause_from_ordered(orderby_ordered(fields, 1, <<>>, {}))

orderby_clause(stmt) ==
  orderby_clause_from_fields(orderby_split_fields(orderby_extract_select_list(stmt)))

WHERE_TERMINATORS ==
  << "group", "having", "order", "into", "appending", "up", "for", "bypassing",
     "union", "intersect", "except", "client", "using", "package" >>

\* orderby_find_next_any_kw finding none of the keywords
orderby_find_no_kw(s, keywords, start) == -1

RECURSIVE orderby_best_idx(_, _, _, _)
orderby_best_idx(s, keywords, start, best) ==
  IF keywords = <<>> THEN best
  ELSE (LET idx == orderby_find_kw(s, Head(keywords), start)
        IN orderby_best_idx(s, Tail(keywords), start,
             IF idx # -1 /\ (best = -1 \/ idx < best) THEN idx ELSE best))

orderby_find_next_any_kw(s, keywords, start) == orderby_best_idx(s, keywords, start, -1)

orderby_has_for_all_entries(stmt) == find_phrase(stmt, << "for", "all", "entries" >>, 0) # -1

has_order_by(stmt) == find_phrase(stmt, << "order", "by" >>, 0) # -1

\* orderby_new_stmt from the assignment of end_idx on
orderby_new_stmt_from_end_idx(stmt, where_idx, end_idx) ==
  (LET insert_pos == IF where_idx # -1 /\ end_idx # -1 THEN end_idx ELSE Len(stmt)
       right == lstrip(tail_from(stmt, insert_pos))
   IN strip(normalize_spaces_preserve_newlines(
        rstrip(slice(stmt, 0, insert_pos)) \o orderby_clause(stmt)
          \o (IF right # "" THEN " " \o right ELSE ""))))

orderby_new_stmt(stmt) ==
  (LET where_idx == orderby_find_kw(stmt, "where", 0)
   IN orderby_new_stmt_from_end_idx(stmt, where_idx,
        IF where_idx = -1 THEN -1
        ELSE orderby_find_next_any_kw(stmt, WHERE_TERMINATORS, where_idx + 5)))

orderby_scan_step(code, k, q) ==
  LET n == Len(code)
      c == ch(code, k)
  IN IF q = ""
     THEN IF c = "\"" \/ star_at_bol(code, k)
          THEN LET e == skip_line_comment(code, k)
               IN [k |-> IF e < n THEN e + 1 ELSE e, q |-> "", res |-> "go"]
          ELSE IF c \in QuoteChars
          THEN [k |-> k + 1, q |-> c, res |-> "go"]
          ELSE IF /\ c \in {"s", "S"}
                  /\ lower(slice(code, k, k + 6)) = "select"
                  /\ (k + 6 = n \/ ~is_word_char(ch(code, k + 6)))
                  /\ orderby_at_statement_lead(code, k)
          THEN [k |-> k, q |-> "", res |-> "found"]
          ELSE [k |-> k + 1, q |-> "", res |-> "go"]
     ELSE LET r == in_string_step(code, k, q)
          IN [k |-> r.i, q |-> r.q, res |-> "go"]

RECURSIVE orderby_scan_run(_, _, _)
orderby_scan_run(code, st, k) ==
  IF st.res # "go" \/ st.k >= Len(code) THEN st
  ELSE IF k = 0 THEN orderby_scan_step(code, st.k, st.q)
  ELSE orderby_scan_run(code, orderby_scan_run(code, st, k - 1), k - 1)

orderby_scan(code, i) ==
  LET r == orderby_scan_run(code, [k |-> i, q |-> "", res |-> "go"], bits(Len(code)))
  IN IF r.res = "found" THEN r.k ELSE -1

\* process_orderby_iter from the assignment of period on
process_orderby_iter_from_period(code, i, tag, sel_pos, before, period) ==
  IF period = -1
  THEN [i |-> i, stop |-> TRUE,
        parts |-> << before, as_is(tail_from(code, sel_pos)) >>]
  ELSE
    (LET stmt == slice(code, sel_pos, period)
         whole == slice(code, sel_pos, period + 1)
         indent == get_line_indent_before(code, sel_pos)
     IN IF orderby_has_for_all_entries(stmt) \/ has_order_by(stmt)
        THEN [i |-> period + 1, stop |-> FALSE,
              parts |-> << before, as_is(whole) >>]
        ELSE [i |-> period + 1, stop |-> FALSE,
              parts |->
                << before,
                   part("tag", indent \o tag, "", sel_pos),
                   part("new", orderby_new_stmt(stmt) \o ".", whole,
                        sel_pos) >>])

\* process_orderby_iter_from_sel_pos without the append of the remainder
\* when no further SELECT is found
process_orderby_iter_drops_rest(code, i, tag, sel_pos) ==
  IF sel_pos = -1
  THEN [i |-> i, parts |-> << >>, stop |-> TRUE]
  ELSE process_orderby_iter_from_period(code, i, tag, sel_pos,
         as_is(slice(code, i, sel_pos)),
         orderby_find_statement_period(code, sel_pos))

\* process_orderby_iter from the assignment of sel_pos on
process_orderby_iter_from_sel_pos(code, i, tag, sel_pos) ==
  IF sel_pos = -1
  THEN [i |-> i, parts |-> << as_is(tail_from(code, i)) >>, stop |-> TRUE]
  ELSE
    (LET before == as_is(slice(code, i, sel_pos))
     IN process_orderby_iter_from_period(code, i, tag, sel_pos, before,
          orderby_find_statement_period(code, sel_pos)))

\* One iteration of process_orderby's outer loop at cursor i < n
process_orderby_iter(code, i, tag) ==
  process_orderby_iter_from_sel_pos(code, i, tag, orderby_scan(code, i))

RECURSIVE process_orderby_parts(_, _, _)
process_orderby_parts(code, i, tag) ==
  IF i >= Len(code) THEN <<>>
  ELSE (LET r == process_orderby_iter(code, i, tag)
        IN IF r.stop THEN r.parts
           ELSE r.parts \o process_orderby_parts(code, r.i, tag))

process_orderby(code, today) ==
  parts_text(process_orderby_parts(code, 0, pwc_tag_line(today)))

(***************************************************************************)
(* app/app.py: process_abap_code, as a state machine.  A request starts    *)
(* at pc = "start"; each pass is entered (Call), runs its outer loop one   *)
(* iteration at a time (Loop) and returns the joined out_parts (Return).   *)
(***************************************************************************)
\* date.isoformat(): YYYY-MM-DD with zero padding
digit(n) == ch(digitChars, n)
pad2(n) == digit((n \div 10) % 10) \o digit(n % 10)
pad4(n) == pad2(n \div 100) \o pad2(n % 100)
isoformat(d) == pad4(d.year) \o "-" \o pad2(d.month) \o "-" \o pad2(d.day)

\* The days date.today() returns, in the order in which the clock passes them
Clock ==
  << [year |-> 2024, month |-> 6, day |-> 9],
     [year |-> 2024, month |-> 6, day |-> 10] >>

\* The texts a request's code is made of
Fragments ==
  << "x = 1. ",
     "\n",
     "  ",
     "\t",
     "'",
     "|",
     "\" ",
     "* ",
     "SELECT SINGLE f1 FROM t WHERE k = 1.",
     "SELECT SINGLE 'where' FROM t INTO x.",
     "SELECT SINGLE f1 FROM t",
     "\nENDSELECT.",
     "SELECT a, b FROM t FOR ALL ENTRIES IN itab WHERE k = itab-k INTO TABLE @DATA(result).",
     "SELECT f1 FROM t INTO TABLE r WHERE k = 'FOR ALL ENTRIES'.",
     "READ TABLE itab INDEX 1.",
     "READ TABLE itab WITH KEY f1 = 1 f2 = 2." >>

\* The number of fragments of a submitted text
MaxFrags == 2

\* The number of requests of one client: the first and the resubmissions of
\* the remediated code it got back
MaxRuns == 2

RECURSIVE Texts(_)
Texts(k) ==
  IF k = 0 THEN {""}
  ELSE Texts(k - 1) \cup
       {t \o Fragments[f] : t \in Texts(k - 1), f \in DOMAIN Fragments}

\* The metadata of a request: name and class_implementation are optional
Metas ==
  { [pgm_name |-> "ZPGM", inc_name |-> "ZINC", type |-> "PROG",
     name |-> "", class_implementation |-> ""],
    [pgm_name |-> "ZCL", inc_name |-> "CM001", type |-> "METH",
     name |-> "RUN", class_implementation |-> "ZCL_IMPL"] }

Payload(m, c) ==
  [pgm_name |-> m.pgm_name, inc_name |-> m.inc_name, type |-> m.type,
   name |-> m.name, class_implementation |-> m.class_implementation, code |-> c]

NoResponse == [none |-> TRUE]

VARIABLES payload, pc, original_code, corrected_code, response,
          active, code, i, out_parts, tag_line, stopped,
          clock, runs, trace, dates

vars == << payload, pc, original_code, corrected_code, response,
           active, code, i, out_parts, tag_line, stopped,
           clock, runs, trace, dates >>

request_vars == << payload, original_code, response, runs >>
pass_vars == << active, code, i, out_parts, tag_line, stopped >>

Init ==
  /\ \E m \in Metas, c \in Texts(MaxFrags) : payload = Payload(m, c)
  /\ pc = "start"
  /\ original_code = ""
  /\ corrected_code = ""
  /\ response = NoResponse
  /\ active = FALSE
  /\ code = ""
  /\ i = 0
  /\ out_parts = <<>>
  /\ tag_line = ""
  /\ stopped = FALSE
  /\ clock = 1
  /\ runs = 1
  /\ trace = <<>>
  /\ dates = {}

\* app.py lines 42-43
Receive ==
  /\ pc = "start"
  /\ original_code' = payload.code
  /\ corrected_code' = payload.code
  /\ pc' = "select"
  /\ UNCHANGED << payload, response, runs, clock, trace, dates >>
  /\ UNCHANGED pass_vars

\* Entering a pass: the date is read once, the cursor and out_parts are reset
Call(p) ==
  /\ pc = p
  /\ ~active
  /\ active' = TRUE
  /\ code' = corrected_code
  /\ i' = 0
  /\ out_parts' = <<>>
  /\ stopped' = FALSE
  /\ tag_line' = pwc_tag_line(isoformat(Clock[clock]))
  /\ dates' = dates \cup {clock}
  /\ UNCHANGED << pc, corrected_code, clock, trace >>
  /\ UNCHANGED request_vars

\* The guard of a pass's outer loop: while i < n, and no break so far
Looping(p) ==
  /\ pc = p
  /\ active
  /\ ~stopped
  /\ i < Len(code)

\* One iteration of a pass's outer loop, r being what the iteration does
Loop(p, r) ==
  /\ out_parts' = out_parts \o r.parts
  /\ i' = r.i
  /\ stopped' = r.stop
  /\ UNCHANGED << pc, corrected_code, clock, trace, dates, active, code, tag_line >>
  /\ UNCHANGED request_vars

\* return ''.join(out_parts), and the assignment of app.py to corrected_code
Return(p, next) ==
  /\ pc = p
  /\ active
  /\ stopped \/ i >= Len(code)
  /\ corrected_code' = parts_text(out_parts)
  /\ trace' = Append(trace, [pass |-> p, input |-> code, parts |-> out_parts,
                             output |-> corrected_code'])
  /\ active' = FALSE
  /\ pc' = next
  /\ UNCHANGED << clock, dates, code, i, out_parts, tag_line, stopped >>
  /\ UNCHANGED request_vars

Call_select == Call("select")
Loop_select ==
  /\ Looping("select")
  /\ \E r \in {process_select_iter(code, i, tag_line)} : Loop("select", r)
Return_select == Return("select", "sort")

Call_sort == Call("sort")
Loop_sort ==
  /\ Looping("sort")
  /\ \E r \in {process_sort_iter(code, i, tag_line)} : Loop("sort", r)
\* Return_sort with process_orderby left out of the sequence
Return_sort_to_read == Return("sort", "read")

Return_sort == Return("sort", "orderby")

Call_orderby == Call("orderby")
Loop_orderby ==
  /\ Looping("orderby")
  /\ \E r \in {process_orderby_iter(code, i, tag_line)} : Loop("orderby", r)
Return_orderby == Return("orderby", "read")

Call_read == Call("read")
Loop_read ==
  /\ Looping("read")
  /\ \E r \in {process_read_iter(code, i, tag_line)} : Loop("read", r)
Return_read == Return("read", "respond")

\* app.py lines 57-65
Respond ==
  /\ pc = "respond"
  /\ response' = [pgm_name |-> payload.pgm_name,
                  inc_name |-> payload.inc_name,
                  type |-> payload.type,
                  name |-> payload.name,
                  class_implementation |-> payload.class_implementation,
                  original_code |-> original_code,
                  remediated_code |-> corrected_code]
  /\ pc' = "done"
  /\ UNCHANGED << payload, original_code, corrected_code, runs, clock, trace, dates >>
  /\ UNCHANGED pass_vars

\* The client submits the remediated code of its response as a new request
Resubmit ==
  /\ pc = "done"
  /\ runs < MaxRuns
  /\ payload' = [payload EXCEPT !.code = response.remediated_code]
  /\ runs' = runs + 1
  /\ pc' = "start"
  /\ trace' = <<>>
  /\ UNCHANGED << original_code, corrected_code, response, clock, dates >>
  /\ UNCHANGED pass_vars

\* Midnight passes while a pass is between two iterations of its outer loop
Tick ==
  /\ active
  /\ ~stopped
  /\ 0 < i
  /\ i < Len(code)
  /\ clock < Len(Clock)
  /\ clock' = clock + 1
  /\ UNCHANGED << pc, corrected_code, trace, dates >>
  /\ UNCHANGED request_vars
  /\ UNCHANGED pass_vars

Next ==
  \/ Receive
  \/ Call_select \/ Loop_select \/ Return_select
  \/ Call_sort \/ Loop_sort \/ Return_sort
  \/ Call_orderby \/ Loop_orderby \/ Return_orderby
  \/ Call_read \/ Loop_read \/ Return_read
  \/ Respond
  \/ Resubmit
  \/ Tick

Spec == Init /\ [][Next]_vars

(***************************************************************************)
(* Requests whose code is one statement of the kinds the passes rewrite,   *)
(* with what stands before it on its line and what follows its terminator. *)
(***************************************************************************)
Leads == << "", "  ", "x = 1. ", "SORT itab.\n" >>

Statements ==
  << "SELECT SINGLE f1 FROM t WHERE k = 1.",
     "SELECT SINGLE f1 FROM t UP TO 5 ROWS WHERE k = 1.",
     "SELECT SINGLE f1 FROM t UP TO n ROWS WHERE k = 1.",
     "SELECT SINGLE f1 FROM t UP TO @n ROWS WHERE k = 1.",
     "SELECT a, b FROM t FOR ALL ENTRIES IN itab WHERE k = itab-k INTO TABLE @DATA(result).",
     "SELECT * FROM t FOR ALL ENTRIES IN itab WHERE k = itab-k APPENDING TABLE result.",
     "SELECT (lv) FROM t FOR ALL ENTRIES IN itab WHERE k = itab-k INTO TABLE result.",
     "SELECT a FROM t FOR ALL ENTRIES IN itab WHERE k = itab-k INTO TABLE <fs>.",
     "SELECT a FROM t FOR ALL ENTRIES IN itab WHERE k = itab-k INTO (a, b).",
     "SELECT a FROM t FOR ALL ENTRIES IN itab WHERE k = itab-k INTO TABLE ls-result.",
     "SELECT a FROM t WHERE k = 1.",
     "SELECT a FROM t.",
     "SELECT a, b FROM t WHERE k = 1 INTO TABLE result.",
     "SELECT * FROM t WHERE k = 1 UP TO 5 ROWS.",
     "SELECT (lv) FROM t INTO TABLE result WHERE k = 1.",
     "SELECT a FROM t WHERE k = 1 ORDER BY a.",
     "SELECT a FROM t WHERE k = 'ORDER BY'.",
     "SELECT a FROM t WHERE k = 'FOR ALL ENTRIES'.",
     "READ TABLE itab WITH KEY f1 = 1 f2 = 2.",
     "READ TABLE itab INDEX 1.",
     "READ TABLE itab WITH KEY f1 = sy-index.",
     "READ TABLE itab WITH TABLE KEY k COMPONENTS f1 = 1 f1 = 2.",
     "READ TABLE itab WITH KEY (lv) = 1." >>

Follows ==
  << "",
     "\nENDSELECT.",
     " \" c\n* c\nendselect.",
     " SORT result BY a.",
     "\n\n* c\nsort RESULT BY a.",
     "\nSORT itab." >>

StatementTexts ==
  {Leads[l] \o Statements[s] \o Follows[f] :
     l \in DOMAIN Leads, s \in DOMAIN Statements, f \in DOMAIN Follows}

StatementInit ==
  /\ \E m \in {x \in Metas : x.name = ""}, c \in StatementTexts :
       payload = Payload(m, c)
  /\ pc = "start"
  /\ original_code = ""
  /\ corrected_code = ""
  /\ response = NoResponse
  /\ active = FALSE
  /\ code = ""
  /\ i = 0
  /\ out_parts = <<>>
  /\ tag_line = ""
  /\ stopped = FALSE
  /\ clock = 1
  /\ runs = 1
  /\ trace = <<>>
  /\ dates = {}

StatementSpec == StatementInit /\ [][Next]_vars

(***************************************************************************)
(* Requests whose code is a short program: statements with what precedes   *)
(* them on earlier lines, keywords in other spellings, identifiers that     *)
(* end in a keyword, literals that hold keywords or runs of blanks, and    *)
(* terminators inside literals, templates and comments.                    *)
(***************************************************************************)
Programs ==
  << "READ TABLE itab INDEX 1.",
     "SORT itab.\nREAD TABLE itab INDEX 1.",
     "sort ITAB BY f1.\n\n* c\n  \" c\n  READ TABLE itab WITH KEY f1 = 1.",
     "SORT other.\nREAD TABLE itab INDEX 1.",
     "SORT itab.\nx = 1.\nREAD TABLE itab INDEX 1.",
     "READ TABLE <fs> INDEX 1.",
     "READ TABLE <fs> WITH KEY f1 = 1.",
     "SORT <fs>.\nREAD TABLE <fs> INDEX 1.",
     "SELECT a AS x, b FROM t FOR ALL ENTRIES IN itab WHERE k = itab-k INTO TABLE r.",
     "SELECT a AS x b FROM t FOR ALL ENTRIES IN itab WHERE k = itab-k INTO TABLE r.",
     "SELECT a AS x, b FROM t WHERE k = 1.",
     "SELECT a AS x b FROM t WHERE k = 1.",
     "SELECT t~a, COUNT( * ) FROM t FOR ALL ENTRIES IN itab WHERE k = itab-k INTO TABLE r.",
     "SELECT t~a, COUNT( * ) FROM t WHERE k = 1.",
     "select single f1 from t.",
     "my_select SINGLE f1 FROM t.",
     "SELECT SINGLEX f1 FROM t.",
     "my_select a FROM t.",
     "SELECTX a FROM t.",
     "read table itab index 1.",
     "my_read TABLE itab INDEX 1.",
     "READ TABLEX itab INDEX 1.",
     "SELECT SINGLE 'where' FROM t INTO x.",
     "SELECT SINGLE f1 FROM t INTO x WHERE k = 'from'.",
     "SELECT SINGLE f1 FROM t WHERE k = 'A  B'.",
     "SELECT SINGLE f1 FROM t WHERE k = 'SINGLE'.",
     "SELECT SINGLE f1  FROM t WHERE k = 'A B'.",
     "SELECT f1 FROM t WHERE k = 'A  B'.",
     "SELECT f1  FROM t \" c\n WHERE k = |A B|.",
     "SELECT a, b FROM t FOR ALL ENTRIES IN itab WHERE k = itab-k INTO TABLE @DATA(result).\nREAD TABLE result INDEX 1.",
     "  SELECT a, b FROM t FOR ALL ENTRIES IN itab WHERE k = itab-k INTO TABLE @DATA(result).\n  READ TABLE result WITH KEY a = 1.",
     "  SELECT SINGLE f1 FROM t WHERE k = 1.",
     "x = 1.\n  SELECT a FROM t.",
     "  READ TABLE itab INDEX 1.",
     "x = 1.\n\tREAD TABLE itab WITH KEY f1 = 1.",
     "x = 'a''.b'. y = 1.",
     "x = |a.| \" c.\n* d.\n  y = ^.^^.^.\n",
     "x = 1 \" c.\n* d.",
     "x = 'a.b" >>

ProgramInit ==
  /\ \E m \in Metas, k \in DOMAIN Programs : payload = Payload(m, Programs[k])
  /\ pc = "start"
  /\ original_code = ""
  /\ corrected_code = ""
  /\ response = NoResponse
  /\ active = FALSE
  /\ code = ""
  /\ i = 0
  /\ out_parts = <<>>
  /\ tag_line = ""
  /\ stopped = FALSE
  /\ clock = 1
  /\ runs = 1
  /\ trace = <<>>
  /\ dates = {}

ProgramSpec == ProgramInit /\ [][Next]_vars

TypeOK ==
  /\ pc \in {"start", "select", "sort", "orderby", "read", "respond", "done"}
  /\ active \in BOOLEAN
  /\ stopped \in BOOLEAN
  /\ i \in 0..Len(code)
  /\ clock \in DOMAIN Clock
  /\ runs \in 1..MaxRuns

(***************************************************************************)
(* Properties.  The passes are observed through out_parts while a pass     *)
(* runs (active) and through trace once it has returned.                   *)
(***************************************************************************)
Passes == << "select", "sort", "orderby", "read" >>

\* The indices of the elements of parts whose role is in kinds
indices(parts, kinds) == {k \in DOMAIN parts : parts[k].k \in kinds}

\* The input text the elements of parts stand for, in order
RECURSIVE parts_source(_)
parts_source(parts) ==
  IF parts = <<>> THEN "" ELSE Head(parts).src \o parts_source(Tail(parts))

\* True when kw stands as a whole word somewhere in s, in any case
mentions(s, kw) == \E p \in 0..(Len(s) - 1) : match_kw_at(s, p, kw)

\* The pass that is running has emitted everything, as after its loop
pass_over == stopped \/ i >= Len(code)

\* C1: a request whose code is the remediated code of the response before it,
\* handled on the same day, gets that code back unchanged.
C1_Idempotent ==
  (pc = "done" /\ runs >= 2 /\ Cardinality(dates) = 1)
    => response.remediated_code = response.original_code

RECURSIVE blanks(_)
blanks(n) ==
  IF n <= 0 THEN ""
  ELSE (LET h == blanks(n \div 2)
        IN h \o h \o (IF n % 2 = 1 THEN " " ELSE ""))

\* One step of the scanner of the specification at s[st.i]: a double quote, or
\* a star in the first column, opens a comment that lasts to the end of the
\* line; a single quote, a backtick or a bar opens a region that its like
\* closes, a doubled one inside the region being a literal character.  out is
\* the text read so far with every character outside Code state blanked.
code_only_step(s, st) ==
  LET c == ch(s, st.i)
  IN IF st.q = ""
     THEN IF c = "\"" \/ star_at_bol(s, st.i)
          THEN (LET e == skip_line_comment(s, st.i)
                IN [i |-> e, q |-> "", out |-> st.out \o blanks(e - st.i)])
          ELSE IF c \in QuoteChars
          THEN [i |-> st.i + 1, q |-> c, out |-> st.out \o " "]
          ELSE [i |-> st.i + 1, q |-> "", out |-> st.out \o c]
     ELSE (LET r == in_string_step(s, st.i, st.q)
           IN [i |-> r.i, q |-> r.q, out |-> st.out \o blanks(r.i - st.i)])

RECURSIVE code_only_run(_, _, _)
code_only_run(s, st, k) ==
  IF st.i >= Len(s) THEN st
  ELSE IF k = 0 THEN code_only_step(s, st)
  ELSE code_only_run(s, code_only_run(s, st, k - 1), k - 1)

\* s with the comments and the quoted regions blanked: what is left is the
\* text in Code state, every character at its position
code_only(s) ==
  code_only_run(s, [i |-> 0, q |-> "", out |-> ""], bits(Len(s))).out

\* The statement that starts at position at, as far as it is in Code state,
\* without its terminator
visible_statement(s, at) ==
  LET v == code_only(s)
      e == find(v, ".", at)
  IN slice(v, at, IF e = -1 THEN Len(v) ELSE e)

\* C3: what makes a pass rewrite or insert is in Code state: the keyword at
\* the head of the statement (SELECT and its SINGLE, READ and its TABLE) and,
\* within the statement, the phrase the pass tests (FOR ALL ENTRIES in
\* process_sort, INDEX or KEY in process_read).
C3_Opacity ==
  active =>
    \A k \in indices(out_parts, {"new", "ins"}) :
      LET stmt == visible_statement(code, out_parts[k].at)
      IN /\ pc \in {"select", "sort", "orderby"} => match_kw_at(stmt, 0, "select")
         /\ pc = "select" => mentions(stmt, "single")
         /\ pc = "sort" => has_for_all_entries(stmt)
         /\ pc = "read" =>
              /\ match_kw_at(stmt, 0, "read")
              /\ mentions(stmt, "table")
              /\ read_has_index(stmt) \/ read_has_key(stmt)

\* The delimiter of the region that is open at the end of s, "" if none is
open_at_end(s) ==
  code_only_run(s, [i |-> 0, q |-> "", out |-> ""], bits(Len(s))).q

\* One iteration of pass p's scan for its keyword at s[k], in state q, goes
\* forward or ends the scan
scan_advances(p, s, k, q) ==
  LET r == CASE p = "select" -> select_scan_step(s, k, q)
             [] p = "sort" -> sort_scan_step(s, k, q)
             [] p = "orderby" -> orderby_scan_step(s, k, q)
             [] p = "read" -> read_scan_step(s, k, q)
  IN r.res # "go" \/ r.k > k

\* One iteration of pass p's find_statement_period at s[k], in state q, goes
\* forward or ends the search
period_search_advances(p, s, k, q) ==
  LET r == CASE p = "select" -> select_fsp_step(s, k, q)
             [] p = "sort" -> sort_fsp_step(s, k, q)
             [] p = "orderby" -> orderby_fsp_step(s, k, q)
             [] p = "read" -> read_fsp_step(s, k, q)
  IN r.hit \/ r.i > k

\* A step of the model that is an iteration of the running pass's outer loop
IsIteration == active /\ active' /\ clock' = clock

\* How far the handling of a request has come: the passes in their order,
\* each one entered and then running
Phase ==
  CASE pc = "start" -> 0
    [] pc = "select" -> IF active THEN 2 ELSE 1
    [] pc = "sort" -> IF active THEN 4 ELSE 3
    [] pc = "orderby" -> IF active THEN 6 ELSE 5
    [] pc = "read" -> IF active THEN 8 ELSE 7
    [] pc = "respond" -> 9
    [] pc = "done" -> 10

\* C4: an iteration of a pass's outer loop ends the loop or leaves the cursor
\* further on, within the text; at every position the iteration went over,
\* in every lexical state, the scan loops go forward; and every step of the
\* handling of a request, for any text, leads on in the order request, pass,
\* end of loop, cursor, none leading back: each pass returns after at most
\* Len(code) iterations and the request gets its response.
C4_Terminates ==
  /\ [][IsIteration =>
         /\ stopped' \/ i' > i
         /\ i' <= Len(code)
         /\ \A k \in i..((IF stopped' THEN Len(code) ELSE i') - 1) :
              \A q \in {""} \cup QuoteChars :
                /\ scan_advances(pc, code, k, q)
                /\ period_search_advances(pc, code, k, q)
       ]_vars
  /\ [][\/ runs' > runs
        \/ runs' = runs /\ Phase' > Phase
        \/ runs' = runs /\ Phase' = Phase /\ active /\ ~stopped
             /\ (stopped' \/ i' > i \/ (i' = i /\ clock' > clock))
       ]_vars
  /\ [](/\ runs \in 1..MaxRuns
        /\ i \in 0..Len(code)
        /\ clock \in DOMAIN Clock)

\* The response to a text that ends inside a quoted region and has a SELECT
\* without terminator
C4_Witness ==
  /\ pc = "done"
  /\ open_at_end(original_code) # ""
  /\ mentions(original_code, "select")
  /\ find(code_only(original_code), ".", 0) = -1

\* The position of the next statement pass p looks for in s from k on, -1 if
\* there is none
next_keyword(p, s, k) ==
  CASE p = "select" -> select_scan(s, k)
    [] p = "sort" -> sort_scan(s, k)
    [] p = "orderby" -> orderby_scan(s, k)
    [] p = "read" -> read_scan(s, k)

\* The position of the terminator of the statement of pass p at k, -1 if none
terminator(p, s, k) ==
  CASE p = "select" -> select_find_statement_period(s, k)
    [] p = "sort" -> sort_find_statement_period(s, k)
    [] p = "orderby" -> orderby_find_statement_period(s, k)
    [] p = "read" -> read_find_statement_period(s, k)

\* C5: an iteration that finds the keyword of its pass at kw and no
\* terminator after it ends the loop, having appended the input up to kw and
\* the input from kw on, unchanged, to what the pass had emitted before; the
\* pass returns, and the response is there only after all four passes ran.
C5_Unterminated ==
  /\ [][(/\ IsIteration
         /\ next_keyword(pc, code, i) # -1
         /\ terminator(pc, code, next_keyword(pc, code, i)) = -1)
        => /\ stopped'
           /\ out_parts' = out_parts \o
                << as_is(slice(code, i, next_keyword(pc, code, i))),
                   as_is(tail_from(code, next_keyword(pc, code, i))) >>
       ]_vars
  /\ [][(active /\ stopped /\ ~active')
        => /\ corrected_code' = parts_text(out_parts)
           /\ pc' # pc
       ]_vars
  /\ [](pc = "done" => Len(trace) = 4)

\* The response to a text whose first SELECT SINGLE was rewritten and whose
\* second one, without terminator, was copied with all that follows it
C5_Witness ==
  /\ pc = "done"
  /\ Len(trace) = 4
  /\ indices(trace[1].parts, {"new"}) # {}
  /\ LET last == trace[1].parts[Len(trace[1].parts)]
     IN /\ last.k = "asis"
        /\ match_kw_at(last.s, 0, "select")
        /\ select_find_statement_period(last.s, 0) = -1
        /\ endswith(trace[4].output, last.s)

\* C6: the passes return in the order select, sort, orderby, read, each one
\* once, the first one given the submitted code and each other one the text
\* the one before it returned; the response carries the submitted code, the
\* text the last pass returned, and the metadata of the request.
C6_PassOrder ==
  /\ Len(trace) <= 4
  /\ \A k \in DOMAIN trace :
       /\ trace[k].pass = Passes[k]
       /\ trace[k].input = (IF k = 1 THEN payload.code ELSE trace[k - 1].output)
       /\ trace[k].output = parts_text(trace[k].parts)
  /\ pc = "done" =>
       /\ Len(trace) = 4
       /\ response.original_code = payload.code
       /\ response.remediated_code = trace[4].output
       /\ response.pgm_name = payload.pgm_name
       /\ response.inc_name = payload.inc_name
       /\ response.type = payload.type
       /\ response.name = payload.name
       /\ response.class_implementation = payload.class_implementation

\* The response to a request with a name and a class implementation, of which
\* three passes changed the text
C6_Witness ==
  /\ pc = "done"
  /\ payload.name # ""
  /\ payload.class_implementation # ""
  /\ Cardinality({k \in DOMAIN trace : trace[k].output # trace[k].input}) = 3

\* The days of Clock as ISO 8601 writes them
IsoDays == << "2024-06-09", "2024-06-10" >>

\* C7: a tag line is, after its indentation, a double quote, a space, the
\* words Added By Pwc, a space, the day of a call of a pass in ISO 8601 form
\* and a newline; the tag lines of one run of a pass are the same text.
C7_TagFormat ==
  active =>
    \A k \in indices(out_parts, {"tag"}) :
      /\ \E d \in dates :
           lstrip(out_parts[k].s) = "\" Added By Pwc " \o IsoDays[d] \o "\n"
      /\ \A j \in indices(out_parts, {"tag"}) :
           lstrip(out_parts[j].s) = lstrip(out_parts[k].s)

\* A pass has written two tag lines, the second one after midnight
C7_Witness ==
  /\ active
  /\ dates = {1}
  /\ clock = 2
  /\ Cardinality(indices(out_parts, {"tag"})) = 2
  /\ \A k \in indices(out_parts, {"tag"}) :
       out_parts[k].s = "\" Added By Pwc 2024-06-09\n"

\* C8: the line of the output that a tag is on begins with the white space
\* that the line of the input begins with on which the statement of the tag
\* starts.
C8_TagIndent ==
  active =>
    \A k \in indices(out_parts, {"tag"}) :
      LET before == parts_text(SubSeq(out_parts, 1, k - 1))
          marker == Len(before) + Len(out_parts[k].s) - Len(lstrip(out_parts[k].s))
      IN get_line_indent_before(before \o out_parts[k].s, marker)
           = get_line_indent_before(code, out_parts[k].at)

\* The elements of parts that put text into the output
shown(parts) == SelectSeq(parts, LAMBDA x : x.s # "")

\* The elements next to the k-th one whose role is in kinds
neighbours(parts, k, kinds) ==
  {j \in {k - 1, k + 1} \cap DOMAIN parts : parts[j].k \in kinds}

\* C9 as stated: a tag is next to exactly one statement that the pass rewrote
\* or inserted, and there are as many tags as such statements, the appended
\* ENDSELECT being one of them.
C9_TagPerStatement ==
  active =>
    LET P == shown(out_parts)
    IN /\ \A k \in indices(P, {"tag"}) :
            Cardinality(neighbours(P, k, {"new", "ins", "endselect"})) = 1
       /\ Cardinality(indices(P, {"tag"}))
            = Cardinality(indices(P, {"new", "ins", "endselect"}))

\* C9: a tag of process_select and process_orderby is directly above the
\* statement the pass rewrote, a tag of process_sort and process_read directly
\* below the SORT the pass inserted; every rewritten statement and every
\* inserted SORT has its tag, so that there are as many tags as rewritten
\* statements and inserted SORTs; an appended ENDSELECT follows the rewritten
\* SELECT and has no tag of its own.
C9_TagLocality ==
  active =>
    LET P == shown(out_parts)
    IN /\ \A k \in indices(P, {"tag"}) :
            IF pc \in {"select", "orderby"}
            THEN /\ k + 1 \in DOMAIN P
                 /\ P[k + 1].k = "new"
                 /\ P[k + 1].at = P[k].at
                 /\ endswith(P[k].s, "\n")
            ELSE /\ k - 1 \in DOMAIN P
                 /\ P[k - 1].k = "ins"
                 /\ P[k - 1].at = P[k].at
                 /\ endswith(P[k - 1].s, "\n")
       /\ \A k \in indices(P, {"new"}) : k - 1 \in DOMAIN P /\ P[k - 1].k = "tag"
       /\ \A k \in indices(P, {"ins"}) : k + 1 \in DOMAIN P /\ P[k + 1].k = "tag"
       /\ \A k \in indices(P, {"endselect"}) : P[k - 1].k = "new"
       /\ Cardinality(indices(P, {"tag"})) = Cardinality(indices(P, {"new", "ins"}))

\* process_select has rewritten two statements and appended two ENDSELECTs
C9_Witness ==
  /\ active
  /\ pc = "select"
  /\ Cardinality(indices(out_parts, {"tag"})) = 2
  /\ Cardinality(indices(out_parts, {"new"})) = 2
  /\ Cardinality(indices(out_parts, {"endselect"})) = 2

\* The statement of C10: SINGLE and a row limit taken out, UP TO 1 ROWS put
\* before the first WHERE that is in Code state, else before the keyword in
\* Code state that ends the INTO clause, else at the end
bounded_lookup(stmt) ==
  LET cleaned == remove_any_up_to_rows(remove_single(stmt))
      where_idx == orderby_find_kw(cleaned, "where", 0)
      into_idx == orderby_find_kw(cleaned, "into", 0)
  IN strip(normalize_spaces(
       IF where_idx # -1 THEN place_up_to_rows(cleaned, where_idx)
       ELSE IF into_idx # -1
       THEN place_up_to_rows(cleaned,
              orderby_find_next_any_kw(cleaned, into_terminators,
                                       skip_re_space(cleaned, into_idx + 4)))
       ELSE place_up_to_rows(cleaned, -1)))

\* C10: process_select puts in the place of a SELECT SINGLE statement the tag
\* line and, directly after it, the statement without SINGLE, with UP TO 1
\* ROWS before its first WHERE, else after its INTO clause, else before the
\* terminator, and with its terminator; scenario A gives the tag line,
\* SELECT f1 FROM t UP TO 1 ROWS WHERE k = 1. and ENDSELECT.
C10_BoundedLookup ==
  (active /\ pc = "select") =>
    /\ \A k \in indices(out_parts, {"new"}) :
         /\ out_parts[k - 1].k = "tag"
         /\ out_parts[k].s =
              bounded_lookup(slice(out_parts[k].src, 0, Len(out_parts[k].src) - 1))
                \o "."
    /\ (pass_over /\ code = "SELECT SINGLE f1 FROM t WHERE k = 1.")
         => parts_text(out_parts) =
              tag_line \o "SELECT f1 FROM t UP TO 1 ROWS WHERE k = 1." \o "\nENDSELECT."

(***************************************************************************)
(* The scenarios of single statements                                      *)
(***************************************************************************)
ScenarioB == "SELECT a, b FROM t FOR ALL ENTRIES IN itab WHERE k = itab-k INTO TABLE @DATA(result)."
ScenarioC == "SELECT a FROM t WHERE k = 1."
ScenarioD == "READ TABLE itab WITH KEY f1 = 1 f2 = 2."

\* True when sub occurs in s, letter for letter
occurs(s, sub) ==
  \E p \in 0..(Len(s) - Len(sub)) : slice(s, p, p + Len(sub)) = sub

\* The texts of the elements of parts whose role is in kinds
texts_of(parts, kinds) == {parts[k].s : k \in indices(parts, kinds)}

\* The field names of an inserted SORT statement: the words between BY and
\* the period
sort_by_fields(text) ==
  LET t == strip(text)
      p == CHOOSE q \in 0..Len(t) :
             /\ q = Len(t) \/ slice(t, q, q + 4) = " BY "
             /\ \A r \in 0..(q - 1) : slice(t, r, r + 4) # " BY "
  IN IF p = Len(t) THEN <<>> ELSE split_ws(slice(t, p + 4, Len(t) - 1))

\* C11 as stated: the passes emit the field names of the scenarios in upper
\* case: SORT result BY A B. for scenario B, ORDER BY A for scenario C and
\* SORT itab BY F1 F2. for scenario D.
C11_UpperCaseFields ==
  (active /\ pass_over) =>
    /\ (pc = "sort" /\ code = ScenarioB)
         => "\nSORT result BY A B.\n" \in texts_of(out_parts, {"ins"})
    /\ (pc = "orderby" /\ code = ScenarioC)
         => \E t \in texts_of(out_parts, {"new"}) : occurs(t, " ORDER BY A")
    /\ (pc = "read" /\ code = ScenarioD)
         => "SORT itab BY F1 F2.\n" \in texts_of(out_parts, {"ins"})

\* C11, amended: the passes emit the field names as the statement spells
\* them: SORT result BY a b. for scenario B, ORDER BY a for scenario C and
\* SORT itab BY f1 f2. for scenario D; every field name of an inserted SORT
\* occurs letter for letter in the text the pass was given.
C11_FieldSpelling ==
  (active /\ pass_over) =>
    /\ (pc = "sort" /\ code = ScenarioB)
         => texts_of(out_parts, {"ins"}) = {"\nSORT result BY a b.\n"}
    /\ (pc = "orderby" /\ code = ScenarioC)
         => texts_of(out_parts, {"new"}) = {"SELECT a FROM t WHERE k = 1 ORDER BY a."}
    /\ (pc = "read" /\ code = ScenarioD)
         => texts_of(out_parts, {"ins"}) = {"SORT itab BY f1 f2.\n"}
    /\ \A t \in texts_of(out_parts, {"ins"}) :
         \A k \in DOMAIN sort_by_fields(t) : occurs(code, sort_by_fields(t)[k])

C11_Witness ==
  /\ pc = "sort" /\ active /\ pass_over
  /\ code = ScenarioB
  /\ \E t \in texts_of(out_parts, {"ins"}) : Len(sort_by_fields(t)) = 2

\* C12: the pipeline run on the output it produced for a FOR ALL ENTRIES
\* query, the query followed by the inserted SORT line and tag, inserts
\* nothing more: no pass of the second run changes the text, and the
\* remediated code of the second response is its original code.
C12_SecondRunInsertsNothing ==
  /\ (/\ runs = 2 /\ active /\ pass_over
      /\ has_for_all_entries(payload.code)
      /\ occurs(payload.code, "Added By Pwc"))
       => parts_text(out_parts) = code
  /\ (/\ runs = 2 /\ pc = "done"
      /\ has_for_all_entries(response.original_code)
      /\ occurs(response.original_code, "Added By Pwc"))
       => response.remediated_code = response.original_code

C12_Witness ==
  /\ runs = 2 /\ pc = "done"
  /\ response.original_code =
       ScenarioB \o "\nSORT result BY a b.\n" \o pwc_tag_line(isoformat(Clock[1]))
  /\ response.remediated_code = response.original_code

\* The positions of s at which the word kw stands, in any case
word_positions(s, kw) == {p \in 0..(Len(s) - 1) : match_kw_at(s, p, kw)}

\* C13: a statement that process_select has rewritten holds exactly one
\* row-limit clause, the inserted UP TO 1 ROWS; a clause UP TO <n> ROWS of the
\* original statement is gone, whether <n> is a number, a variable or a host
\* variable.
C13_OneRowLimit ==
  (pc = "select" /\ active) =>
    \A k \in indices(out_parts, {"new"}) :
      /\ Cardinality(word_positions(out_parts[k].s, "rows")) = 1
      /\ \A p \in word_positions(out_parts[k].s, "rows") :
           p >= 8 /\ slice(out_parts[k].s, p - 8, p + 4) = "UP TO 1 ROWS"

\* The text the running pass has emitted after element k of out_parts
emitted_after(k) == parts_text(SubSeq(out_parts, k + 1, Len(out_parts)))

\* C14: process_select appends ENDSELECT. on a new line after the terminator
\* of a rewritten statement exactly when ENDSELECT. is not the next text
\* after the terminator, whitespace and comments skipped; when it is, the
\* text between the terminator and the ENDSELECT comes out once, followed
\* by that one ENDSELECT.
C14_EndselectOnce ==
  (pc = "select" /\ active /\ pass_over) =>
    \A k \in indices(out_parts, {"new"}) :
      LET period_pos == out_parts[k].at + Len(out_parts[k].src) - 1
          e == select_skip_ws_and_comments(code, period_pos + 1)
          present == e < Len(code) /\ lower(slice(code, e, e + 10)) = "endselect."
          indent == get_line_indent_before(code, out_parts[k].at)
      IN IF present
         THEN emitted_after(k) = tail_from(code, period_pos + 1)
         ELSE emitted_after(k) =
                "\n" \o indent \o "ENDSELECT." \o tail_from(code, period_pos + 1)

\* FOR ALL ENTRIES queries with the target result, and the SORT statement
\* each is to get: the fields of the list separated by spaces, or none for a
\* wildcard and for a dynamic list
BulkLookups ==
  { [stmt |-> ScenarioB, sort |-> "SORT result BY a b."],
    [stmt |-> "SELECT * FROM t FOR ALL ENTRIES IN itab WHERE k = itab-k APPENDING TABLE result.",
     sort |-> "SORT result."],
    [stmt |-> "SELECT (lv) FROM t FOR ALL ENTRIES IN itab WHERE k = itab-k INTO TABLE result.",
     sort |-> "SORT result."] }

\* What stands before a statement at line lead, with the indentation it
\* gives the statement's line
LineLeads ==
  { [text |-> "", indent |-> ""],
    [text |-> "  ", indent |-> "  "],
    [text |-> "SORT itab.\n", indent |-> ""] }

\* What follows a query without being a SORT statement of result
NoSortOfResult ==
  { "", "\nENDSELECT.", " \" c\n* c\nendselect.", "\nSORT itab." }

\* C15: for a SELECT at line lead with FOR ALL ENTRIES and the target result
\* that no sort of result follows, process_sort copies the statement and puts
\* after its terminator a new line with the SORT statement and a tag line,
\* both with the indentation of the SELECT line; the SORT statement names
\* the fields of the select list separated by spaces, and is the bare SORT
\* for a wildcard or a dynamic list.
C15_SortAfterBulkLookup ==
  (pc = "sort" /\ active /\ pass_over) =>
    \A q \in BulkLookups, l \in LineLeads, f \in NoSortOfResult :
      code = l.text \o q.stmt \o f
        => parts_text(out_parts) =
             l.text \o q.stmt \o "\n" \o l.indent \o q.sort
               \o "\n" \o l.indent \o tag_line \o f

C15_Witness ==
  /\ pc = "sort" /\ active /\ pass_over
  /\ \E q \in BulkLookups :
       /\ code = "  " \o q.stmt \o "\nSORT itab."
       /\ texts_of(out_parts, {"ins"}) = {"\n  SORT result.\n"}

\* What follows a query and begins with a SORT statement of result as the
\* next executable statement: on the line of the terminator, or after a blank
\* line and a comment line, in lower case
SortOfResultNext ==
  { " SORT result BY a.", "\n\n* c\nsort RESULT BY a." }

\* C16: process_sort inserts nothing for a FOR ALL ENTRIES query exactly
\* when a SORT statement of the query's target is the next executable
\* statement after the terminator, blank and comment lines skipped and the
\* name compared in any case, wherever that statement stands, the line of
\* the terminator included; a SORT of another table does not count.
C16_SkipWhenSorted ==
  (pc = "sort" /\ active /\ pass_over) =>
    \A q \in BulkLookups, l \in LineLeads :
      /\ \A f \in SortOfResultNext :
           code = l.text \o q.stmt \o f => parts_text(out_parts) = code
      /\ \A f \in NoSortOfResult :
           code = l.text \o q.stmt \o f => indices(out_parts, {"ins"}) # {}

\* FOR ALL ENTRIES queries whose INTO clause names no table that could be
\* sorted: a field symbol, a list of variables, a component of a structure
UnresolvedTargets ==
  { "SELECT a FROM t FOR ALL ENTRIES IN itab WHERE k = itab-k INTO TABLE <fs>.",
    "SELECT a FROM t FOR ALL ENTRIES IN itab WHERE k = itab-k INTO (a, b).",
    "SELECT a FROM t FOR ALL ENTRIES IN itab WHERE k = itab-k INTO TABLE ls-result." }

\* The table an inserted SORT statement names: its second word
sorted_table(text) ==
  LET w == split_runs(text, SpaceSet \cup {"."})
  IN IF Len(w) >= 2 THEN w[2] ELSE ""

\* C17: process_sort leaves the text as it is when the target of a FOR ALL
\* ENTRIES query cannot be taken from its INTO or APPENDING clause, and no
\* SORT statement it inserts names TABLE, CORRESPONDING or another word that
\* is not the target of the query.
C17_UnresolvedTargetUntouched ==
  (pc = "sort" /\ active /\ pass_over) =>
    /\ \A q \in UnresolvedTargets, l \in LineLeads, f \in NoSortOfResult :
         code = l.text \o q \o f => parts_text(out_parts) = code
    /\ \A t \in texts_of(out_parts, {"ins"}) :
         lower(sorted_table(t)) \notin {"table", "corresponding", "ls"}

\* The words that end a WHERE clause
WhereEnds ==
  { "group", "having", "order", "into", "appending", "up", "for", "bypassing",
    "union", "intersect", "except", "client", "using", "package" }

\* The place of the ORDER BY clause in the statement stmt: ahead of the
\* first of WhereEnds that stands in Code state after WHERE, at the end of the
\* statement when none does or when there is no WHERE
order_by_place(stmt) ==
  LET v == code_only(stmt)
      W == word_positions(v, "where")
      T == IF W = {} THEN {}
           ELSE {p \in UNION {word_positions(v, kw) : kw \in WhereEnds} :
                   p >= least(W) + 5}
  IN IF T = {} THEN Len(stmt) ELSE least(T)

\* The fields of the ORDER BY clause for the statement stmt, whose select
\* list is written with a comma and a blank between its fields: the list
\* itself, PRIMARY KEY for a wildcard and for a dynamic list
order_by_fields(stmt) ==
  LET list == strip(slice(stmt, 6, least(word_positions(code_only(stmt), "from"))))
  IN IF list = "*" \/ startswith(list, "(") THEN "PRIMARY KEY" ELSE list

\* The statement stmt with the clause put at position at
with_clause(stmt, clause, at) ==
  LET rest == lstrip(tail_from(stmt, at))
  IN rstrip(slice(stmt, 0, at)) \o clause \o (IF rest = "" THEN "" ELSE " " \o rest)

\* C18: a SELECT that process_orderby rewrites gets ORDER BY <fields> at the
\* end of its WHERE clause, ahead of the first of GROUP, HAVING, ORDER, INTO,
\* APPENDING, UP, FOR, BYPASSING, UNION, INTERSECT, EXCEPT, CLIENT, USING,
\* PACKAGE in Code state after WHERE, or at the end of the statement; without
\* WHERE it stands ahead of the terminator; for a wildcard or a dynamic list
\* the clause is ORDER BY PRIMARY KEY; the tag line is directly above the
\* statement.
C18_OrderByPlace ==
  (pc = "orderby" /\ active) =>
    \A k \in indices(out_parts, {"new"}) :
      LET stmt == slice(out_parts[k].src, 0, Len(out_parts[k].src) - 1)
      IN /\ out_parts[k].s =
              with_clause(stmt, " ORDER BY " \o order_by_fields(stmt),
                          order_by_place(stmt)) \o "."
         /\ k > 1
         /\ out_parts[k - 1].k = "tag"
         /\ endswith(out_parts[k - 1].s, "\n")

C18_Witness ==
  /\ pc = "orderby" /\ active
  /\ \E k \in indices(out_parts, {"new"}) :
       /\ out_parts[k].src = "SELECT a, b FROM t WHERE k = 1 INTO TABLE result."
       /\ out_parts[k].s = "SELECT a, b FROM t WHERE k = 1 ORDER BY a, b INTO TABLE result."
  /\ \E k \in indices(out_parts, {"tag"}) : TRUE

\* True when the words of a phrase stand in Code state in stmt
phrase_in_code(stmt, words) == phrase_search(code_only(stmt), words) # -1

\* Terminated SELECT statements that no earlier pass rewrites: with ORDER BY
\* or FOR ALL ENTRIES as a clause, with one of them in a literal only, with
\* none
OrderCandidates ==
  { "SELECT a FROM t WHERE k = 1 ORDER BY a.",
    "SELECT a FROM t FOR ALL ENTRIES IN itab WHERE k = itab-k INTO (a, b).",
    "SELECT a FROM t WHERE k = 'ORDER BY'.",
    "SELECT a FROM t WHERE k = 'FOR ALL ENTRIES'.",
    "SELECT a FROM t WHERE k = 1.",
    "SELECT a FROM t." }

\* C19: process_orderby leaves a terminated SELECT at line lead as it is if
\* and only if FOR ALL ENTRIES or ORDER BY stands in the statement in Code
\* state; a statement that has the phrase in a literal or a comment only gets
\* its ORDER BY clause.
C19_SkipIffOrdered ==
  (pc = "orderby" /\ active /\ pass_over) =>
    \A q \in OrderCandidates, l \in LineLeads, f \in NoSortOfResult :
      code = l.text \o q \o f
        => (parts_text(out_parts) = code
              <=> \/ phrase_in_code(q, << "for", "all", "entries" >>)
                  \/ phrase_in_code(q, << "order", "by" >>))

\* READ TABLE statements and the SORT statement each is to get: bare for a
\* read by INDEX, with the names left of = in the key, once each, for a read
\* by key, bare when the key gives no name
KeyedReads ==
  { [stmt |-> ScenarioD, sort |-> "SORT itab BY f1 f2."],
    [stmt |-> "READ TABLE itab INDEX 1.", sort |-> "SORT itab."],
    [stmt |-> "READ TABLE itab WITH KEY f1 = sy-index.", sort |-> "SORT itab BY f1."],
    [stmt |-> "READ TABLE itab WITH TABLE KEY k COMPONENTS f1 = 1 f1 = 2.",
     sort |-> "SORT itab BY f1."],
    [stmt |-> "READ TABLE itab WITH KEY (lv) = 1.", sort |-> "SORT itab."] }

\* What stands before a READ without being a SORT statement of its table
NoSortBefore == { "", "  ", "x = 1. " }

\* C20: for a READ TABLE that no sort of its table precedes, process_read
\* puts ahead of the read, with its tag, the bare SORT <table>. when the read
\* uses INDEX, SORT <table> BY <fields>. when it uses a key, the fields being
\* the names left of = in the key in their order and once each, and the bare
\* SORT when the key gives no field; the word INDEX in a key value such as
\* sy-index does not make a read by key a read by index.
C20_SortBeforeRead ==
  (pc = "read" /\ active /\ pass_over) =>
    \A q \in KeyedReads, l \in NoSortBefore, f \in DOMAIN Follows :
      code = l \o q.stmt \o Follows[f]
        => /\ Cardinality(indices(out_parts, {"ins"})) = 1
           /\ \A k \in indices(out_parts, {"ins"}) :
                /\ strip(out_parts[k].s) = q.sort
                /\ k + 2 <= Len(out_parts)
                /\ out_parts[k + 1].k = "tag"
                /\ out_parts[k + 2].s = q.stmt

\* READ TABLE statements of itab at line lead with what stands on the lines
\* before them: lead is the text before the statement, sorted tells whether
\* the executable line before the READ is a SORT statement of itab
PrecededReads ==
  { [lead |-> "", read |-> "READ TABLE itab INDEX 1.", sorted |-> FALSE],
    [lead |-> "SORT itab.\n", read |-> "READ TABLE itab INDEX 1.", sorted |-> TRUE],
    [lead |-> "sort ITAB BY f1.\n\n* c\n  \" c\n  ",
     read |-> "READ TABLE itab WITH KEY f1 = 1.", sorted |-> TRUE],
    [lead |-> "SORT other.\n", read |-> "READ TABLE itab INDEX 1.", sorted |-> FALSE],
    [lead |-> "SORT itab.\nx = 1.\n", read |-> "READ TABLE itab INDEX 1.",
     sorted |-> FALSE] }

FieldSymbolReads ==
  { [text |-> "READ TABLE <fs> INDEX 1.", sort |-> "SORT <fs>.\n",
     rest |-> "READ TABLE <fs> INDEX 1."],
    [text |-> "READ TABLE <fs> WITH KEY f1 = 1.", sort |-> "SORT <fs> BY f1.\n",
     rest |-> "READ TABLE <fs> WITH KEY f1 = 1."],
    [text |-> "SORT <fs>.\nREAD TABLE <fs> INDEX 1.", sort |-> "",
     rest |-> "SORT <fs>.\nREAD TABLE <fs> INDEX 1."] }

\* C22: process_read handles a table given as a field-symbol as it handles a
\* named table: READ TABLE <fs> by index gets SORT <fs>. and by key gets
\* SORT <fs> BY <fields>. ahead of it, each with the tag line, and after a line
\* SORT <fs>. the read is left as it is.
C22_FieldSymbolReads ==
  (pc = "read" /\ active /\ pass_over) =>
    \A p \in FieldSymbolReads :
      code = p.text
        => parts_text(out_parts)
             = p.sort \o (IF p.sort = "" THEN "" ELSE tag_line) \o p.rest

\* Column lists with an alias, separated by commas and by blanks
AliasLists == { "a AS x, b", "a AS x b" }

\* C23: in process_sort and in process_orderby an item <expr> AS <alias> of a
\* column list, separated by commas or by blanks, gives the alias as its one
\* field: the lists a AS x, b and a AS x b both lead to SORT r BY x b. and to
\* ORDER BY x, b, without the expression a, without AS and without an empty
\* item.
C23_AliasNamesField ==
  \A l \in AliasLists :
    /\ (/\ pc = "sort" /\ active /\ pass_over
        /\ code = "SELECT " \o l \o " FROM t FOR ALL ENTRIES IN itab WHERE k = itab-k INTO TABLE r.")
         => parts_text(out_parts) = code \o "\nSORT r BY x b.\n" \o tag_line
    /\ (/\ pc = "orderby" /\ active /\ pass_over
        /\ code = "SELECT " \o l \o " FROM t WHERE k = 1.")
         => parts_text(out_parts)
              = tag_line \o "SELECT " \o l \o " FROM t WHERE k = 1 ORDER BY x, b."

\* C24: in process_sort and in process_orderby an item tab~field of a column
\* list without alias gives field, and an item that is a call such as
\* COUNT( * ) gives nothing: the list t~a, COUNT( * ) leads to SORT r BY a.
\* and to ORDER BY a.
C24_QualifierAndCall ==
  /\ (/\ pc = "sort" /\ active /\ pass_over
      /\ code = "SELECT t~a, COUNT( * ) FROM t FOR ALL ENTRIES IN itab WHERE k = itab-k INTO TABLE r.")
       => parts_text(out_parts) = code \o "\nSORT r BY a.\n" \o tag_line
  /\ (/\ pc = "orderby" /\ active /\ pass_over
      /\ code = "SELECT t~a, COUNT( * ) FROM t WHERE k = 1.")
       => parts_text(out_parts)
            = tag_line \o "SELECT t~a, COUNT( * ) FROM t WHERE k = 1 ORDER BY a."

\* Texts in which the words of a statement start are part of a longer name,
\* and texts in which they stand in lower case
NoSelectSingle == { "my_select SINGLE f1 FROM t.", "SELECT SINGLEX f1 FROM t.",
                    "SELECTX a FROM t." }
NoSelect == { "my_select a FROM t.", "SELECTX a FROM t." }
NoReadTable == { "my_read TABLE itab INDEX 1.", "READ TABLEX itab INDEX 1." }

\* C25: the words that start a statement are matched in any case and only as
\* whole words: select single ... in lower case is rewritten by
\* process_select and read table ... by process_read, while SELECT and SINGLE
\* as the end or the start of a longer name (my_select, SELECTX, SINGLEX) and
\* READ and TABLE likewise (my_read, TABLEX) start no statement, so that the
\* pass returns such a text as it is.
C25_WholeWordKeywords ==
  /\ (pc = "select" /\ active /\ pass_over)
       => /\ code \in NoSelectSingle => parts_text(out_parts) = code
          /\ code = "select single f1 from t."
               => parts_text(out_parts)
                    = tag_line \o "select f1 from t UP TO 1 ROWS.\nENDSELECT."
  /\ (pc = "orderby" /\ active /\ pass_over)
       => (code \in NoSelect => parts_text(out_parts) = code)
  /\ (pc = "read" /\ active /\ pass_over)
       => /\ code \in NoReadTable => parts_text(out_parts) = code
          /\ code = "read table itab index 1."
               => parts_text(out_parts) = "SORT itab.\n" \o tag_line \o code

\* The first "." of s at or after start that is in Code state when the text is
\* read from start on in Code state, -1 when there is none
first_period_in_code(s, start) ==
  find(code_only_run(s, [i |-> start, q |-> "", out |-> blanks(start)],
                     bits(Len(s))).out, ".", start)

\* C26: for the text a pass is given and every start in it, the four copies of
\* find_statement_period return the same index, the first "." at or after
\* start that is in Code state, or -1: a "." in a comment from " to the end of
\* the line, on a line with * in its first column, or between ', ` or | and
\* the matching delimiter is passed over, a doubled delimiter inside such a
\* region not closing it.
C26_StatementPeriod ==
  /\ (pc = "select" /\ active /\ i = 0) =>
       \A start \in 0..Len(code) :
         LET r == first_period_in_code(code, start)
         IN /\ select_find_statement_period(code, start) = r
            /\ sort_find_statement_period(code, start) = r
            /\ orderby_find_statement_period(code, start) = r
            /\ read_find_statement_period(code, start) = r
  /\ (pc = "select" /\ active /\ i = 0) =>
       /\ code = "x = 'a''.b'. y = 1."
            => /\ select_find_statement_period(code, 0) = 11
               /\ select_find_statement_period(code, 12) = 18
       /\ code = "x = |a.| \" c.\n* d.\n  y = ^.^^.^.\n"
            => select_find_statement_period(code, 0) = 31
       /\ code \in {"x = 1 \" c.\n* d.", "x = 'a.b"}
            => select_find_statement_period(code, 0) = -1

C26_Witness ==
  /\ pc = "select" /\ active /\ i = 0
  /\ code = "x = 'a''.b'. y = 1."
  /\ read_find_statement_period(code, 0) = 11
  /\ sort_find_statement_period(code, 12) = 18

\* C27: process_select looks for the words that place UP TO 1 ROWS (WHERE,
\* INTO and the words that end the INTO clause) in Code state only: with the
\* word where or from inside a literal of a SELECT SINGLE statement the clause
\* is put at its place outside the literal, and the literal comes out as it
\* went in.
C27_ClauseNotInLiteral ==
  (pc = "select" /\ active /\ pass_over) =>
    /\ code = "SELECT SINGLE 'where' FROM t INTO x."
         => parts_text(out_parts)
              = tag_line \o "SELECT 'where' FROM t INTO x UP TO 1 ROWS.\nENDSELECT."
    /\ code = "SELECT SINGLE f1 FROM t INTO x WHERE k = 'from'."
         => parts_text(out_parts)
              = tag_line \o "SELECT f1 FROM t INTO x UP TO 1 ROWS WHERE k = 'from'.\nENDSELECT."

\* Statements process_select rewrites, each with a literal it holds
SingleWithLiteral ==
  { [stmt |-> "SELECT SINGLE f1 FROM t WHERE k = 'A  B'.", kept |-> "'A  B'"],
    [stmt |-> "SELECT SINGLE f1 FROM t WHERE k = 'SINGLE'.", kept |-> "'SINGLE'"],
    [stmt |-> "SELECT SINGLE f1  FROM t WHERE k = 'A B'.", kept |-> "'A B'"] }

\* Statements process_orderby rewrites, each with a literal, a template or a
\* comment it holds
SelectWithLiteral ==
  { [stmt |-> "SELECT f1 FROM t WHERE k = 'A  B'.", kept |-> "'A  B'"],
    [stmt |-> "SELECT f1  FROM t \" c\n WHERE k = |A B|.", kept |-> "|A B|"],
    [stmt |-> "SELECT f1  FROM t \" c\n WHERE k = |A B|.", kept |-> "\" c\n"] }

\* C28: the statement process_select or process_orderby writes in place of a
\* statement holds every literal, template and comment of that statement
\* character for character: taking out SINGLE and a row limit and collapsing
\* runs of blanks change nothing inside them, so 'A  B' keeps its two blanks
\* and 'SINGLE' its word.
C28_LiteralsKept ==
  /\ (pc = "select" /\ active /\ pass_over) =>
       \A p \in SingleWithLiteral :
         code = p.stmt
           => /\ indices(out_parts, {"new"}) # {}
              /\ \A k \in indices(out_parts, {"new"}) : occurs(out_parts[k].s, p.kept)
  /\ (pc = "orderby" /\ active /\ pass_over) =>
       \A p \in SelectWithLiteral :
         code = p.stmt
           => /\ indices(out_parts, {"new"}) # {}
              /\ \A k \in indices(out_parts, {"new"}) : occurs(out_parts[k].s, p.kept)

\* A FOR ALL ENTRIES query into result with a READ of result on the next line,
\* at the left margin and indented: query and read with their indentation
BulkLookupThenRead ==
  { [indent |-> "", query |-> ScenarioB, read |-> "READ TABLE result INDEX 1."],
    [indent |-> "  ", query |-> ScenarioB, read |-> "READ TABLE result WITH KEY a = 1."] }

\* True when position at of s is on a line that holds a tag of a pass
on_tag_line(s, at) ==
  LET nl == rfind(s, "\n", at)
      ls == IF nl = -1 THEN 0 ELSE nl + 1
  IN startswith(lstrip(tail_from(s, ls)), "\" Added By Pwc")

\* C29: a later pass reads what an earlier pass inserted as statements and
\* comments.  For a FOR ALL ENTRIES query into a table with a READ of that
\* table on the next line, process_read is given the query, the SORT that
\* process_sort inserted, its tag line, and the READ; it skips the tag line as
\* a comment, finds the SORT and inserts nothing, so the remediated code holds
\* one SORT between query and read.  No pass rewrites, marks or inserts for a
\* statement that starts on a tag line.
C29_InsertionsAreOrdinaryText ==
  /\ (pc = "read" /\ active /\ pass_over /\ runs = 1) =>
       \A p \in BulkLookupThenRead :
         payload.code = p.indent \o p.query \o "\n" \o p.indent \o p.read
           => /\ \E d \in DOMAIN Clock :
                   code = p.indent \o p.query \o "\n" \o p.indent \o "SORT result BY a b.\n"
                            \o p.indent \o pwc_tag_line(isoformat(Clock[d]))
                            \o "\n" \o p.indent \o p.read
              /\ parts_text(out_parts) = code
              /\ Cardinality(word_positions(parts_text(out_parts), "sort")) = 1
  /\ active =>
       \A k \in indices(out_parts, {"new", "ins", "tag", "endselect"}) :
         out_parts[k].at >= 0 => ~on_tag_line(code, out_parts[k].at)

C29_Witness ==
  /\ pc = "read" /\ active /\ pass_over /\ runs = 1
  /\ payload.code = ScenarioB \o "\nREAD TABLE result INDEX 1."
  /\ parts_text(out_parts) = code
  /\ Cardinality(word_positions(code, "sort")) = 1
  /\ occurs(code, "Added By Pwc")

\* What stands on the line of the first occurrence of stmt in text before it,
\* "?" when stmt does not occur
lead_of(text, stmt) ==
  LET p == least({x \in 0..(Len(text) - Len(stmt)) : slice(text, x, x + Len(stmt)) = stmt})
      nl == IF p = -1 THEN -1 ELSE rfind(text, "\n", p)
  IN IF p = -1 THEN "?" ELSE slice(text, IF nl = -1 THEN 0 ELSE nl + 1, p)

\* Statements that begin their line, with the indentation of the line, the
\* pass that handles them, the statement as the pass writes it, and the SORT
\* statement the pass inserts ("" for none)
IndentedStatements ==
  { [pass |-> "select", code |-> "select single f1 from t.", indent |-> "",
     stmt |-> "select f1 from t UP TO 1 ROWS.", sort |-> ""],
    [pass |-> "select", code |-> "  SELECT SINGLE f1 FROM t WHERE k = 1.", indent |-> "  ",
     stmt |-> "SELECT f1 FROM t UP TO 1 ROWS WHERE k = 1.", sort |-> ""],
    [pass |-> "orderby", code |-> "x = 1.\n  SELECT a FROM t.", indent |-> "  ",
     stmt |-> "SELECT a FROM t ORDER BY a.", sort |-> ""],
    [pass |-> "read", code |-> "READ TABLE itab INDEX 1.", indent |-> "",
     stmt |-> "READ TABLE itab INDEX 1.", sort |-> "SORT itab."],
    [pass |-> "read", code |-> "  READ TABLE itab INDEX 1.", indent |-> "  ",
     stmt |-> "READ TABLE itab INDEX 1.", sort |-> "SORT itab."],
    [pass |-> "read", code |-> "x = 1.\n\tREAD TABLE itab WITH KEY f1 = 1.", indent |-> "\t",
     stmt |-> "READ TABLE itab WITH KEY f1 = 1.", sort |-> "SORT itab BY f1."] }

\* C30: the statement a pass rewrites or marks stays at its indentation: in
\* the text process_select and process_orderby return the rewritten SELECT, and
\* in the text process_read returns the READ TABLE, has before it on its line
\* the leading whitespace it had in the text the pass was given, and the SORT
\* inserted ahead of a READ has that whitespace once.
C30_IndentationKept ==
  (active /\ pass_over) =>
    \A p \in IndentedStatements :
      (pc = p.pass /\ code = p.code)
        => /\ lead_of(parts_text(out_parts), p.stmt) = p.indent
           /\ p.sort # "" => lead_of(parts_text(out_parts), p.sort) = p.indent











====
